---------------------------- MODULE Spec2Model ----------------------------
(***************************************************************************)
(* A model of candlecore's paper-trading ledger (internal/broker/paper.go). *)
(*                                                                         *)
(* float64 values are modelled as exact rationals <<n, d>> in lowest terms *)
(* (d > 0): the ledger's sums, products and the one division (position     *)
(* averaging) are computed exactly, so rounding error is abstracted away.  *)
(* *engine.Position values live in a heap of objects, because the ledger,  *)
(* the account's Positions slice and the results handed to callers share   *)
(* them by pointer.  Wall-clock timestamps and log output are left out.    *)
(***************************************************************************)
EXTENDS Integers, Sequences, FiniteSets, TLC

(***************************************************************************)
(* Exact rational arithmetic standing for float64.                         *)
(***************************************************************************)
Abs(x) == IF x < 0 THEN -x ELSE x

RECURSIVE GCD(_, _)
GCD(a, b) == IF b = 0 THEN a ELSE GCD(b, a % b)

R(n, d) ==
    LET g == GCD(Abs(n), d)
    IN  IF n = 0 THEN <<0, 1>> ELSE <<n \div g, d \div g>>

R0 == <<0, 1>>

RInt(n) == <<n, 1>>

RAdd(x, y) ==
    LET g == GCD(x[2], y[2])
        l == (x[2] \div g) * y[2]
    IN  R(x[1] * (l \div x[2]) + y[1] * (l \div y[2]), l)

RNeg(x) == <<-x[1], x[2]>>

RSub(x, y) == RAdd(x, RNeg(y))

RMul(x, y) ==
    LET g1 == GCD(Abs(x[1]), y[2])
        g2 == GCD(Abs(y[1]), x[2])
    IN  IF x[1] = 0 \/ y[1] = 0 THEN R0
        ELSE <<(x[1] \div g1) * (y[1] \div g2), (x[2] \div g2) * (y[2] \div g1)>>

\* x / y for y # 0 (the ledger divides only by a position's quantity)
RDiv(x, y) ==
    IF y[1] < 0 THEN RMul(x, <<-y[2], -y[1]>>) ELSE RMul(x, <<y[2], y[1]>>)

RLe(x, y) ==
    LET g == GCD(x[2], y[2])
    IN  x[1] * (y[2] \div g) <= y[1] * (x[2] \div g)

RLt(x, y) == ~RLe(y, x)

(***************************************************************************)
(* engine types (engine/types.go)                                          *)
(***************************************************************************)
OrderSideBuy == "buy"
OrderSideSell == "sell"
OrderTypeMarket == "market"
OrderTypeLimit == "limit"
OrderStatusPending == "pending"
OrderStatusFilled == "filled"
OrderStatusCancelled == "cancelled"
OrderStatusRejected == "rejected"

\* A freshly built engine.Order: every field the caller does not set is zero.
Order(side, type, symbol, quantity, price) ==
    [id |-> 0, side |-> side, type |-> type, symbol |-> symbol,
     quantity |-> quantity, price |-> price, status |-> "",
     filledPrice |-> R0, filledQty |-> R0, fee |-> R0, slippage |-> R0]

Position(symbol, side, entryPrice, quantity, currentPrice) ==
    [symbol |-> symbol, side |-> side, entryPrice |-> entryPrice,
     quantity |-> quantity, currentPrice |-> currentPrice,
     unrealizedPnL |-> R0]

Trade(symbol, side, entryPrice, exitPrice, quantity, pnl, fee, netPnl) ==
    [symbol |-> symbol, side |-> side, entryPrice |-> entryPrice,
     exitPrice |-> exitPrice, quantity |-> quantity, pnl |-> pnl,
     fee |-> fee, netPnL |-> netPnl]

(***************************************************************************)
(* Bounds and input sets                                                   *)
(***************************************************************************)
MaxSteps == 4

Symbols == {"BTC/USD", "ETH/USD"}

\* NewPaperBroker's arguments: initialBalance, takerFee, slippageBps
Configs ==
    { [initialBalance |-> RInt(10000), takerFee |-> R(1, 1000), slippageBps |-> RInt(5)],
      [initialBalance |-> RInt(250), takerFee |-> R(1, 100), slippageBps |-> RInt(100)],
      [initialBalance |-> RInt(200), takerFee |-> R0, slippageBps |-> R0],
      [initialBalance |-> RInt(500), takerFee |-> RInt(1), slippageBps |-> RInt(10000)] }

Quantities == {RInt(1), RInt(2), R(10001, 10000)}

MarkPrices == {RInt(100), RInt(110)}

\* The prices callers pass to UpdateMarketPrice
TickPrices == MarkPrices \cup {R0}

\* The orders callers place: market orders of every side and quantity for
\* one symbol and of one quantity for the other, four invalid orders, a
\* limit order, a buy of half a unit, a buy of 0.00005 unit and a market buy
\* that states no price.
OrderInputs ==
    { Order(sd, OrderTypeMarket, "BTC/USD", q, RInt(100)) :
        sd \in {OrderSideBuy, OrderSideSell}, q \in Quantities }
    \cup { Order(sd, OrderTypeMarket, "ETH/USD", RInt(1), RInt(100)) :
             sd \in {OrderSideBuy, OrderSideSell} }
    \cup { Order(OrderSideBuy, OrderTypeMarket, "BTC/USD", R0, RInt(100)),
           Order(OrderSideSell, OrderTypeMarket, "", RInt(1), RInt(100)),
           Order(OrderSideBuy, OrderTypeLimit, "ETH/USD", RInt(-1), RInt(100)),
           Order(OrderSideSell, OrderTypeLimit, "", RInt(1), RInt(100)),
           Order(OrderSideBuy, OrderTypeLimit, "BTC/USD", RInt(1), RInt(100)),
           Order(OrderSideBuy, OrderTypeMarket, "ETH/USD", R(1, 2), RInt(100)),
           Order(OrderSideBuy, OrderTypeMarket, "BTC/USD", R(1, 20000), RInt(100)),
           Order(OrderSideBuy, OrderTypeMarket, "ETH/USD", RInt(1), R0) }

(***************************************************************************)
(* State                                                                   *)
(***************************************************************************)
VARIABLES
    cfg,           \* PaperBroker.initialBalance, takerFee, slippageBps
    balance,       \* b.account.Balance
    positions,     \* b.positions: symbol -> *Position (NoObj: no entry)
    accPositions,  \* b.account.Positions: slice of *Position
    openOrders,    \* b.account.OpenOrders
    tradeHistory,  \* b.account.TradeHistory
    marketPrices,  \* b.marketPrices (a missing key reads as 0)
    heap,          \* the Position objects the pointers above refer to
    nextId,        \* the next fresh order identifier (uuid.New)
    snap,          \* the latest *Account a caller got from GetAccount
    held,          \* the latest *Position a caller got from GetPosition
    last,          \* history: the latest call, its result and the ledger before it
    life,          \* history: per symbol, what the latest fill did to its position
    seen,          \* history: the Position values snap and held showed when returned
    recorded,      \* history: the symbols UpdateMarketPrice has been called for
    steps,         \* calls made so far (bounded)
    mu,            \* b.mu: is the write lock held, and by how many readers the read lock
    pcW,           \* the PlaceOrder caller's place in PlaceOrder
    wOrder,        \* the order that caller is placing
    pcR,           \* each GetAccount caller's place in GetAccount
    rd,            \* the Account each GetAccount caller is building
    results,       \* the Account each GetAccount caller got last
    calls,         \* GetAccount calls each caller has made (bounded)
    commits,       \* history: what the ledger held whenever the write lock was free
    pcE,           \* the main goroutine's place: in Engine.Run's loop, or after it
    idx,           \* Run's loop index i
    nCandles,      \* len(candles)
    ctxDone,       \* has ctx been cancelled
    runErr,        \* what Run returned ("running" until it returns)
    file,          \* the state file account.json
    processed,     \* history: candles whose loop body has run
    lastCandle,    \* history: the latest candle's index, error and SaveState outcome
    failed,        \* history: the kinds of error met so far in the run
    finalSave,     \* history: the outcome of main's SaveState after Run
    onTradeCalls,  \* history: calls of Strategy.OnTrade made
    twin,          \* a second run of the same candles and signals on its own ledger
    tf,            \* a Timeframe value
    tfResult,      \* what the methods called on tf have returned
    hub,           \* the websocket Hub, its clients and their goroutines
    bot            \* the BotController and the run loops it started

vars == <<cfg, balance, positions, accPositions, openOrders, tradeHistory,
          marketPrices, heap, nextId, snap, held, last, life, seen, recorded, steps,
          mu, pcW, wOrder, pcR, rd, results, calls, commits,
          pcE, idx, nCandles, ctxDone, runErr, file, processed, lastCandle,
          failed, finalSave, onTradeCalls, twin, tf, tfResult, hub, bot>>

\* The callers' state in the two specifications: the sequential one (Spec)
\* and the one with concurrent callers (SpecLock).
seqVars == <<snap, held, last, life, seen, recorded, steps>>

lockVars == <<mu, pcW, wOrder, pcR, rd, results, calls, commits>>

\* The state of a run of the engine (SpecRun) and of the state store.
runVars == <<pcE, idx, nCandles, ctxDone, runErr, processed, lastCandle, failed,
             finalSave, onTradeCalls, twin, tf, tfResult, hub, bot>>

(***************************************************************************)
(* exchange.Timeframe                                                      *)
(***************************************************************************)
Timeframe1m == "1m"
Timeframe5m == "5m"
Timeframe15m == "15m"
Timeframe1h == "1h"
Timeframe4h == "4h"
Timeframe1d == "1d"

\* Values of type Timeframe, a string: the six constants and ten others
TimeframeInputs ==
    {Timeframe1m, Timeframe5m, Timeframe15m, Timeframe1h, Timeframe4h, Timeframe1d,
     "", "invalid", "2h", "1w", "30m", "1M", "1H", "60", "1min", "d1"}

\* A time.Duration is an int64 count of nanoseconds, kept here as whole
\* seconds and the nanoseconds left over.
NanosPerSecond == 1000000000

Duration(sec, nsec) == [sec |-> sec, nsec |-> nsec]

\* time.Minute = 60 * Second
Minute == Duration(60, 0)

\* time.Duration(n) * d, for 0 <= n and n * d within int64
DurationTimes(n, d) ==
    Duration(n * d.sec + (n * d.nsec) \div NanosPerSecond,
             (n * d.nsec) % NanosPerSecond)

ToMinutes_DayAsHour(t) ==
    CASE t = Timeframe1m -> 1
      [] t = Timeframe5m -> 5
      [] t = Timeframe15m -> 15
      [] t = Timeframe1h -> 60
      [] t = Timeframe4h -> 240
      [] t = Timeframe1d -> 60
      [] OTHER -> 0

ToMinutes(t) ==
    CASE t = Timeframe1m -> 1
      [] t = Timeframe5m -> 5
      [] t = Timeframe15m -> 15
      [] t = Timeframe1h -> 60
      [] t = Timeframe4h -> 240
      [] t = Timeframe1d -> 1440
      [] OTHER -> 0

ToDuration(t) == DurationTimes(ToMinutes(t), Minute)

IsValid(t) ==
    CASE t \in {Timeframe1m, Timeframe5m, Timeframe15m, Timeframe1h, Timeframe4h,
                Timeframe1d} -> TRUE
      [] OTHER -> FALSE

\* No method has been called on tf
NotCalled == [ToMinutes |-> <<>>, ToDuration |-> <<>>, IsValid |-> <<>>]

(***************************************************************************)
(* websocket.Hub and its clients                                           *)
(***************************************************************************)
HubClients == {1, 2}

\* The capacity of a client's send channel (256 in NewClient) and the number
\* of events broadcast
SendCap == 2
MaxEvents == 3

\* NewHub, with no connection made yet.  conn is where a connection stands:
\* "none", "pumps" (registered, its two pumps started), "leaving" (ReadPump
\* is sending on unregister) or "left"; closes counts the calls of
\* close(client.send); panics holds the run-time panics met.
NewHub ==
    [clients |-> {},
     broadcast |-> <<>>,
     pc |-> "select",
     event |-> 0,
     todo |-> {},
     started |-> {},
     send |-> [c \in HubClients |-> <<>>],
     closes |-> [c \in HubClients |-> 0],
     got |-> [c \in HubClients |-> 0],
     outcome |-> [c \in HubClients |-> "none"],
     conn |-> [c \in HubClients |-> "none"],
     writer |-> [c \in HubClients |-> "run"],
     produced |-> 0,
     panics |-> {}]

\* close(client.send)
CloseSend(h, c) ==
    [h EXCEPT !.closes[c] = @ + 1,
              !.panics = IF h.closes[c] > 0 THEN @ \cup {"close of closed channel"}
                         ELSE @]

\* the unregister case closing the channel of any client it is sent
UnregisterCloses_Always(h, c) == TRUE

\* Run, line 82: if _, ok := h.clients[client]; ok
UnregisterCloses(h, c) == c \in h.clients

\* Run, lines 74-77
RegisterResult(h, c) ==
    [h EXCEPT !.clients = @ \cup {c}, !.conn[c] = "pumps"]

\* Run, lines 80-86
UnregisterResult(h, c) ==
    LET h1 == IF UnregisterCloses(h, c)
              THEN CloseSend([h EXCEPT !.clients = @ \ {c}], c)
              ELSE h
    IN  [h1 EXCEPT !.conn[c] = "left"]

\* Run, lines 92-97: the select on one client's send channel.  A send on a
\* closed channel panics; with room in the buffer the event is sent;
\* otherwise the default case closes the channel and deletes the client.
VisitResult(h, c) ==
    LET h1 == [h EXCEPT !.todo = @ \ {c}] IN
    IF h.closes[c] > 0
    THEN [h1 EXCEPT !.panics = @ \cup {"send on closed channel"}]
    ELSE IF Len(h.send[c]) < SendCap
    THEN [h1 EXCEPT !.send[c] = Append(@, h.event),
                    !.got[c] = h.event,
                    !.outcome[c] = "sent"]
    ELSE [CloseSend(h1, c) EXCEPT !.clients = @ \ {c},
                                  !.outcome[c] = "dropped"]

(***************************************************************************)
(* api.BotController                                                       *)
(***************************************************************************)
\* Bounds: the Starts that succeed, the calls of the API, and the candles
\* GetCandles returns
MaxStarts == 2
MaxCalls == 4
NCandles == 2

Loops == 1..MaxStarts

\* Arguments of Configure: symbol, timeframe, strategy, replayMode
ConfigureInputs ==
    { <<"ethereum", Timeframe1d, "rsi", TRUE>>,
      <<"bitcoin", Timeframe1h, "ma_crossover", FALSE>>,
      <<"bitcoin", Timeframe4h, "momentum", FALSE>> }

\* NewBotController.  Channels are numbered: 0 is the one made here, k the
\* one made by the k-th Start that succeeded, which also made bot k and
\* started loop k.  A loop is at "none", "load", "check", "candle", "finish"
\* or "done", and has processed i candles.
NewBotController ==
    [isRunning |-> FALSE,
     replayMode |-> FALSE,
     symbol |-> "bitcoin",
     timeframe |-> Timeframe1h,
     strategyName |-> "ma_crossover",
     bot |-> 0,
     stopChan |-> 0,
     closed |-> {},
     starts |-> 0,
     loops |-> [k \in Loops |-> [pc |-> "none", i |-> 0, missedStop |-> FALSE,
                                 stoppedLater |-> FALSE]],
     calls |-> 0,
     panics |-> {},
     last |-> [op |-> "NewBotController"]]

\* The fields of the controller, and the loops started
Fields(bc) ==
    [isRunning |-> bc.isRunning, replayMode |-> bc.replayMode, symbol |-> bc.symbol,
     timeframe |-> bc.timeframe, strategyName |-> bc.strategyName, bot |-> bc.bot,
     stopChan |-> bc.stopChan, closed |-> bc.closed, starts |-> bc.starts]

\* Start, lines 47-84
StartResult(bc) ==
    IF bc.isRunning THEN [bc |-> bc, err |-> "bot is already running"]
    ELSE IF bc.strategyName \notin {"ma_crossover", "rsi"}
    THEN [bc |-> bc, err |-> "unknown strategy"]
    ELSE [bc |-> [bc EXCEPT !.bot = bc.starts + 1,
                            !.isRunning = TRUE,
                            !.stopChan = bc.starts + 1,
                            !.starts = bc.starts + 1,
                            !.loops[bc.starts + 1].pc = "load"],
          err |-> ""]

\* Stop, lines 87-101
StopResult(bc) ==
    IF ~bc.isRunning THEN [bc |-> bc, err |-> "bot is not running"]
    ELSE [bc |-> [bc EXCEPT !.closed = @ \cup {bc.stopChan},
                            !.panics = IF bc.stopChan \in bc.closed
                                       THEN @ \cup {"close of closed channel"} ELSE @,
                            !.isRunning = FALSE],
          err |-> ""]

\* Configure without the test of isRunning
ConfigureResult_Unguarded(bc, symbol, timeframe, strategy, replayMode) ==
    [bc |-> [bc EXCEPT !.symbol = symbol, !.timeframe = timeframe,
                       !.strategyName = strategy, !.replayMode = replayMode],
     err |-> IF bc.isRunning THEN "cannot configure while bot is running" ELSE ""]

\* Configure, lines 183-197
ConfigureResult(bc, symbol, timeframe, strategy, replayMode) ==
    IF bc.isRunning THEN [bc |-> bc, err |-> "cannot configure while bot is running"]
    ELSE [bc |-> [bc EXCEPT !.symbol = symbol, !.timeframe = timeframe,
                            !.strategyName = strategy, !.replayMode = replayMode],
          err |-> ""]

\* run, line 118: the channels loop k can find in bc.stopChan, a field it
\* reads without holding bc.mu while Start writes it: the one its own Start
\* made or one made since.
StopChanRead(bc, k) == k..bc.stopChan

NoObj == 0
NObj == 2 * Cardinality(Symbols) + 1
ObjIds == 1..NObj
NoPos == [symbol |-> ""]
NoOrder == [id |-> 0]
NoSnap == [taken |-> FALSE]

\* The ledger's mutable fields as one value, for the operators below.
Ledger ==
    [balance |-> balance, positions |-> positions, accPositions |-> accPositions,
     openOrders |-> openOrders, tradeHistory |-> tradeHistory,
     marketPrices |-> marketPrices, heap |-> heap]

\* The threshold below which closePosition deletes a position (0.0001).
Epsilon == R(1, 10000)

(***************************************************************************)
(* PaperBroker's private helpers                                           *)
(***************************************************************************)
validateOrder(order) ==
    IF RLe(order.quantity, R0) THEN "quantity must be positive"
    ELSE IF order.symbol = "" THEN "symbol is required"
    ELSE ""

\* calculatePositionPnL with the two prices exchanged
calculatePositionPnL_EntryMinusCurrent(pos) ==
    IF pos.currentPrice = R0 THEN R0
    ELSE RMul(RSub(pos.entryPrice, pos.currentPrice), pos.quantity)

calculatePositionPnL(pos) ==
    IF pos.currentPrice = R0 THEN R0
    ELSE RMul(RSub(pos.currentPrice, pos.entryPrice), pos.quantity)

RECURSIVE SumPnL(_, _)
SumPnL(L, S) ==
    IF S = {} THEN R0
    ELSE LET s == CHOOSE x \in S : TRUE
         IN  RAdd(L.heap[L.positions[s]].unrealizedPnL, SumPnL(L, S \ {s}))

\* The orders in which a range over the map b.positions can visit the
\* positions, as far as the float64 sum of calculateEquity can depend on it:
\* the balance plus fewer than two non-zero terms, or plus equal terms, is
\* the same float64 in every order.
RangeOrders(L) ==
    LET terms == {s \in Symbols : /\ L.positions[s] # NoObj
                                  /\ L.heap[L.positions[s]].unrealizedPnL # R0}
    IN  IF Cardinality({L.heap[L.positions[s]].unrealizedPnL : s \in terms}) < 2
        THEN {<<>>}
        ELSE {o \in [1..Cardinality(terms) -> terms] :
                \A i, j \in 1..Cardinality(terms) : o[i] = o[j] => i = j}

\* calculateEquity's float64 result: the exact sum it rounds, and the order
\* the terms were added in, two results of the same sum in different orders
\* not being the same float64 in general.
calculateEquity(L, order) ==
    [sum |-> RAdd(L.balance, SumPnL(L, {s \in Symbols : L.positions[s] # NoObj})),
     order |-> order]

\* new(engine.Position): the first heap slot that holds no object
Alloc(L) == CHOOSE i \in ObjIds : L.heap[i] = NoPos /\ \A j \in 1..(i - 1) : L.heap[j] # NoPos

\* openPosition with the entry price averaged without the quantities' weights
openPosition_SimpleMean(L, order) ==
    LET p == L.positions[order.symbol] IN
    IF p = NoObj
    THEN LET id == Alloc(L)
             pos == Position(order.symbol, order.side, order.filledPrice,
                             order.filledQty, order.filledPrice)
         IN  [L EXCEPT !.heap[id] = pos,
                       !.positions[order.symbol] = id,
                       !.accPositions = Append(@, id)]
    ELSE LET pos == L.heap[p]
         IN  [L EXCEPT !.heap[p].quantity = RAdd(pos.quantity, order.filledQty),
                       !.heap[p].entryPrice =
                           RDiv(RAdd(pos.entryPrice, order.filledPrice), RInt(2))]

openPosition(L, order) ==
    LET p == L.positions[order.symbol] IN
    IF p = NoObj
    THEN LET id == Alloc(L)
             pos == Position(order.symbol, order.side, order.filledPrice,
                             order.filledQty, order.filledPrice)
         IN  [L EXCEPT !.heap[id] = pos,
                       !.positions[order.symbol] = id,
                       !.accPositions = Append(@, id)]
    ELSE LET pos == L.heap[p]
             totalCost == RAdd(RMul(pos.entryPrice, pos.quantity),
                               RMul(order.filledPrice, order.filledQty))
             qty == RAdd(pos.quantity, order.filledQty)
         IN  [L EXCEPT !.heap[p].quantity = qty,
                       !.heap[p].entryPrice = RDiv(totalCost, qty)]

\* The slice without its first element whose Symbol is the given one.
RECURSIVE RemoveSymbol(_, _, _)
RemoveSymbol(h, seq, symbol) ==
    IF seq = <<>> THEN <<>>
    ELSE IF h[Head(seq)].symbol = symbol THEN Tail(seq)
    ELSE <<Head(seq)>> \o RemoveSymbol(h, Tail(seq), symbol)

\* the trade record put in front of the history
appendTrade_Prepend(L, order) ==
    LET pos == L.heap[L.positions[order.symbol]]
        pnl == RMul(RSub(order.filledPrice, pos.entryPrice), order.filledQty)
        netPnl == RSub(pnl, order.fee)
    IN  [L EXCEPT !.tradeHistory =
            <<Trade(order.symbol, pos.side, pos.entryPrice, order.filledPrice,
                    order.filledQty, pnl, order.fee, netPnl)>> \o @]

\* closePosition, lines 233-252: the trade record appended to the history
appendTrade(L, order) ==
    LET pos == L.heap[L.positions[order.symbol]]
        pnl == RMul(RSub(order.filledPrice, pos.entryPrice), order.filledQty)
        netPnl == RSub(pnl, order.fee)
    IN  [L EXCEPT !.tradeHistory =
            Append(@, Trade(order.symbol, pos.side, pos.entryPrice, order.filledPrice,
                            order.filledQty, pnl, order.fee, netPnl))]

\* creditBalance crediting the proceeds without taking the fee
creditBalance_NoFee(L, order) ==
    [L EXCEPT !.balance = RAdd(@, RMul(order.filledPrice, order.filledQty))]

\* closePosition, lines 254-256
creditBalance(L, order) ==
    [L EXCEPT !.balance =
        RAdd(@, RSub(RMul(order.filledPrice, order.filledQty), order.fee))]

\* the closing test without the 0.0001 tolerance
FullyClosed_Zero(quantity) == RLe(quantity, R0)

\* closePosition, line 262: is the reduced position fully closed?
FullyClosed(quantity) == RLe(quantity, Epsilon)

\* closePosition, lines 258-271
reducePosition(L, order) ==
    LET p == L.positions[order.symbol]
        qty == RSub(L.heap[p].quantity, order.filledQty)
        L1 == [L EXCEPT !.heap[p].quantity = qty]
    IN  IF FullyClosed(qty)
        THEN [L1 EXCEPT !.positions[order.symbol] = NoObj,
                        !.accPositions = RemoveSymbol(L1.heap, @, order.symbol)]
        ELSE L1

closePosition(L, order) ==
    IF L.positions[order.symbol] = NoObj THEN L
    ELSE reducePosition(creditBalance(appendTrade(L, order), order), order)

\* priceOrder with the basis points taken as percent
priceOrder_SlippagePercent(L, order) ==
    LET mp == L.marketPrices[order.symbol]
        marketPrice == IF mp = R0 THEN order.price ELSE mp
        slippage == RMul(marketPrice, RDiv(cfg.slippageBps, RInt(100)))
        filledPrice == IF order.side = OrderSideBuy
                       THEN RAdd(marketPrice, slippage)
                       ELSE RSub(marketPrice, slippage)
        orderValue == RMul(filledPrice, order.quantity)
    IN  [order EXCEPT !.filledPrice = filledPrice,
                      !.filledQty = order.quantity,
                      !.slippage = slippage,
                      !.fee = RMul(orderValue, cfg.takerFee)]

\* priceOrder taking the slippage from the order's identifier
priceOrder_SlippageById(L, order) ==
    LET mp == L.marketPrices[order.symbol]
        marketPrice == IF mp = R0 THEN order.price ELSE mp
        slippage == IF order.id < 0 THEN R0
                    ELSE RMul(marketPrice, RDiv(cfg.slippageBps, RInt(10000)))
        filledPrice == IF order.side = OrderSideBuy
                       THEN RAdd(marketPrice, slippage)
                       ELSE RSub(marketPrice, slippage)
        orderValue == RMul(filledPrice, order.quantity)
    IN  [order EXCEPT !.filledPrice = filledPrice,
                      !.filledQty = order.quantity,
                      !.slippage = slippage,
                      !.fee = RMul(orderValue, cfg.takerFee)]

\* executeMarketOrder, lines 144-162: the order with its fill fields set
priceOrder(L, order) ==
    LET mp == L.marketPrices[order.symbol]
        marketPrice == IF mp = R0 THEN order.price ELSE mp
        slippage == RMul(marketPrice, RDiv(cfg.slippageBps, RInt(10000)))
        filledPrice == IF order.side = OrderSideBuy
                       THEN RAdd(marketPrice, slippage)
                       ELSE RSub(marketPrice, slippage)
        orderValue == RMul(filledPrice, order.quantity)
    IN  [order EXCEPT !.filledPrice = filledPrice,
                      !.filledQty = order.quantity,
                      !.slippage = slippage,
                      !.fee = RMul(orderValue, cfg.takerFee)]

\* executeMarketOrder, lines 166-167
totalCost(order) == RAdd(RMul(order.filledPrice, order.filledQty), order.fee)

\* the balance test rejecting a cost equal to the balance
InsufficientBalance_Ge(cost, bal) == RLe(bal, cost)

\* the balance never found insufficient
InsufficientBalance_Never(cost, bal) == FALSE

\* executeMarketOrder, line 167
InsufficientBalance(cost, bal) == RLt(bal, cost)

\* executeMarketOrder, line 170
debitBalance(L, order) == [L EXCEPT !.balance = RSub(@, totalCost(order))]

\* executeMarketOrder debiting the balance before it checks it
executeMarketOrder_DebitBeforeCheck(L, order) ==
    LET o == priceOrder(L, order) IN
    IF o.side = OrderSideBuy /\ InsufficientBalance(totalCost(o), L.balance)
    THEN [L |-> debitBalance(L, o), order |-> o, err |-> "insufficient balance"]
    ELSE [L |-> IF o.side = OrderSideBuy
                THEN openPosition(debitBalance(L, o), o)
                ELSE closePosition(L, o),
          order |-> [o EXCEPT !.status = OrderStatusFilled],
          err |-> ""]

executeMarketOrder(L, order) ==
    LET o == priceOrder(L, order) IN
    IF o.side = OrderSideBuy /\ InsufficientBalance(totalCost(o), L.balance)
    THEN [L |-> L, order |-> o, err |-> "insufficient balance"]
    ELSE [L |-> IF o.side = OrderSideBuy
                THEN openPosition(debitBalance(L, o), o)
                ELSE closePosition(L, o),
          order |-> [o EXCEPT !.status = OrderStatusFilled],
          err |-> ""]

(***************************************************************************)
(* PaperBroker's methods, each a function of the ledger before the call    *)
(***************************************************************************)
\* PlaceOrder validating market orders only
PlaceOrderResult_ValidateMarketOnly(L, order, id) ==
    LET o == [order EXCEPT !.id = id]
        verr == validateOrder(o)
    IN  IF o.type = OrderTypeMarket
        THEN IF verr # ""
             THEN [L |-> L, order |-> [o EXCEPT !.status = OrderStatusRejected], err |-> verr]
             ELSE executeMarketOrder(L, o)
        ELSE LET po == [o EXCEPT !.status = OrderStatusPending]
             IN  [L |-> [L EXCEPT !.openOrders = Append(@, po)], order |-> po, err |-> ""]

PlaceOrderResult(L, order, id) ==
    LET o == [order EXCEPT !.id = id]
        verr == validateOrder(o)
    IN  IF verr # ""
        THEN [L |-> L, order |-> [o EXCEPT !.status = OrderStatusRejected], err |-> verr]
        ELSE IF o.type = OrderTypeMarket
        THEN executeMarketOrder(L, o)
        ELSE LET po == [o EXCEPT !.status = OrderStatusPending]
             IN  [L |-> [L EXCEPT !.openOrders = Append(@, po)], order |-> po, err |-> ""]

RECURSIVE IndexOfOrder(_, _, _)
IndexOfOrder(seq, id, i) ==
    IF i > Len(seq) THEN 0
    ELSE IF seq[i].id = id THEN i
    ELSE IndexOfOrder(seq, id, i + 1)

RemoveAt(seq, i) == SubSeq(seq, 1, i - 1) \o SubSeq(seq, i + 1, Len(seq))

\* CancelOrder marking the order cancelled without taking it off the list
CancelOrderResult_KeepsInList(L, orderID) ==
    LET i == IndexOfOrder(L.openOrders, orderID, 1) IN
    IF i = 0
    THEN [L |-> L, order |-> NoOrder, err |-> "order not found"]
    ELSE [L |-> [L EXCEPT !.openOrders[i].status = OrderStatusCancelled],
          order |-> [L.openOrders[i] EXCEPT !.status = OrderStatusCancelled],
          err |-> ""]

CancelOrderResult(L, orderID) ==
    LET i == IndexOfOrder(L.openOrders, orderID, 1) IN
    IF i = 0
    THEN [L |-> L, order |-> NoOrder, err |-> "order not found"]
    ELSE [L |-> [L EXCEPT !.openOrders = RemoveAt(@, i)],
          order |-> [L.openOrders[i] EXCEPT !.status = OrderStatusCancelled],
          err |-> ""]

\* UpdateMarketPrice settling the position's unrealized PnL into the balance
UpdateMarketPriceResult_RealizesPnL(L, symbol, price) ==
    LET L1 == [L EXCEPT !.marketPrices[symbol] = price]
        p == L.positions[symbol]
    IN  IF p = NoObj THEN L1
        ELSE LET pos == [L1.heap[p] EXCEPT !.currentPrice = price]
             IN  [L1 EXCEPT !.heap[p] =
                    [pos EXCEPT !.unrealizedPnL = calculatePositionPnL(pos)],
                            !.balance = RAdd(@, calculatePositionPnL(pos))]

\* UpdateMarketPrice taking off the list the limit orders the new price reaches
UpdateMarketPriceResult_FillsLimits(L, symbol, price) ==
    LET L1 == [L EXCEPT !.marketPrices[symbol] = price]
        p == L.positions[symbol]
        Rests(o) == ~(o.symbol = symbol /\ RLe(price, o.price))
        L2 == [L1 EXCEPT !.openOrders = SelectSeq(@, Rests)]
    IN  IF p = NoObj THEN L2
        ELSE LET pos == [L2.heap[p] EXCEPT !.currentPrice = price]
             IN  [L2 EXCEPT !.heap[p] =
                    [pos EXCEPT !.unrealizedPnL = calculatePositionPnL(pos)]]

UpdateMarketPriceResult(L, symbol, price) ==
    LET L1 == [L EXCEPT !.marketPrices[symbol] = price]
        p == L.positions[symbol]
    IN  IF p = NoObj THEN L1
        ELSE LET pos == [L1.heap[p] EXCEPT !.currentPrice = price]
             IN  [L1 EXCEPT !.heap[p] =
                    [pos EXCEPT !.unrealizedPnL = calculatePositionPnL(pos)]]

\* The *Account GetAccount builds: Balance and Equity by value, Positions a
\* fresh slice of the same pointers, TradeHistory the shared slice (which
\* keeps its length and its immutable trades) and OpenOrders.
GetAccountResult(L, order) ==
    [taken |-> TRUE,
     balance |-> L.balance,
     equity |-> calculateEquity(L, order),
     positions |-> L.accPositions,
     openOrders |-> L.openOrders,
     tradeHistory |-> L.tradeHistory]

GetPositionResult(L, symbol) == L.positions[symbol]

(***************************************************************************)
(* Garbage collection: a Position object nothing refers to any more is     *)
(* dropped from the heap.                                                  *)
(***************************************************************************)
Range(seq) == {seq[i] : i \in 1..Len(seq)}

Roots(L, sn, hd) ==
    {L.positions[s] : s \in Symbols}
      \cup (IF sn.taken THEN Range(sn.positions) ELSE {})
      \cup {hd}

Collect(L, sn, hd) ==
    [i \in ObjIds |-> IF i \in Roots(L, sn, hd) THEN L.heap[i] ELSE NoPos]


(***************************************************************************)
(* History variables                                                       *)
(***************************************************************************)
\* Per symbol, the latest fill that touched its position: "opened" (a buy
\* with no position open), "changed" (a buy into an open position, or a sell
\* that left more than 0.0001 of it), "closed" (a sell that left 0.0001 or
\* less), with the fill's price and quantity; "none" before the first fill.
\* It is derived from the call and the ledger before it, not from what the
\* ledger did.
NoFill == [st |-> "none"]

Fill(st, order, left) ==
    [st |-> st, price |-> order.filledPrice, qty |-> order.filledQty, left |-> left]

LifeAfter(L, r) ==
    LET o == r.order
        had == L.positions[o.symbol] # NoObj
        qty == IF had THEN L.heap[L.positions[o.symbol]].quantity ELSE R0
        more == RAdd(qty, o.filledQty)
        less == RSub(qty, o.filledQty)
    IN  IF o.status # OrderStatusFilled THEN life
        ELSE IF o.side = OrderSideBuy
        THEN [life EXCEPT ![o.symbol] = Fill(IF had THEN "changed" ELSE "opened", o, more)]
        ELSE IF ~had THEN life
        ELSE [life EXCEPT ![o.symbol] =
                Fill(IF RLe(less, R(1, 10000)) THEN "closed" ELSE "changed", o, less)]

\* The values of the Position objects a slice of pointers refers to.
Deref(h, ptrs) == [i \in 1..Len(ptrs) |-> h[ptrs[i]]]

Call(op, arg, order, err, pre) ==
    [op |-> op, arg |-> arg, order |-> order, err |-> err, pre |-> pre, preLife |-> life,
     preRecorded |-> recorded]

\* The ledger fields of a result become the next state.
Install(L, sn, hd) ==
    /\ balance' = L.balance
    /\ positions' = L.positions
    /\ accPositions' = L.accPositions
    /\ openOrders' = L.openOrders
    /\ tradeHistory' = L.tradeHistory
    /\ marketPrices' = L.marketPrices
    /\ heap' = Collect(L, sn, hd)

(***************************************************************************)
(* The range of the exact arithmetic.  A fractional quantity multiplies    *)
(* every denominator by 10^4, and averaging divides by the summed          *)
(* quantity, so the calls explored are those whose exact results fit       *)
(* TLC's 32-bit integers: an order with a fractional quantity is placed    *)
(* only on a ledger without fee and slippage, and a buy averages into a    *)
(* position only when both quantities are whole numbers.                   *)
(***************************************************************************)
IsWhole(x) == x[2] = 1

InRange(L, order) ==
    IF validateOrder(order) # "" \/ order.type # OrderTypeMarket THEN TRUE
    ELSE IF order.side = OrderSideBuy /\ L.positions[order.symbol] # NoObj
    THEN IsWhole(order.quantity) /\ IsWhole(L.heap[L.positions[order.symbol]].quantity)
    ELSE IsWhole(order.quantity) \/ (cfg.takerFee = R0 /\ cfg.slippageBps = R0)

(***************************************************************************)
(* The sequential ledger: one action per method call                       *)
(***************************************************************************)
\* GetAccount's callers in SpecLock
Readers == {1, 2}

NoAccount == [taken |-> FALSE]

\* What one GetAccount result shows of the ledger.
Snapshot(L) ==
    [balance |-> L.balance,
     positions |-> Deref(L.heap, L.accPositions),
     tradeHistory |-> L.tradeHistory]

NoFile == [exists |-> FALSE]

NoCandle == [i |-> -1]

\* NewPaperBroker, and no caller has called yet
InitBroker ==
    /\ cfg \in Configs
    /\ balance = cfg.initialBalance
    /\ positions = [s \in Symbols |-> NoObj]
    /\ accPositions = <<>>
    /\ openOrders = <<>>
    /\ tradeHistory = <<>>
    /\ marketPrices = [s \in Symbols |-> R0]
    /\ heap = [i \in ObjIds |-> NoPos]
    /\ nextId = 1
    /\ snap = NoSnap
    /\ held = NoObj
    /\ life = [s \in Symbols |-> NoFill]
    /\ recorded = {}
    /\ last = Call("NewPaperBroker", "", NoOrder, "", NoSnap)
    /\ seen = [account |-> <<>>, position |-> NoPos]
    /\ steps = 0
    /\ mu = [writer |-> FALSE, readers |-> 0]
    /\ pcW = "idle"
    /\ wOrder = NoOrder
    /\ pcR = [r \in Readers |-> "idle"]
    /\ rd = [r \in Readers |-> NoAccount]
    /\ results = [r \in Readers |-> NoAccount]
    /\ calls = [r \in Readers |-> 0]
    /\ commits = {Snapshot(Ledger)}
    /\ ctxDone = FALSE
    /\ idx = 0
    /\ processed = 0
    /\ lastCandle = NoCandle
    /\ failed = {}
    /\ finalSave = "none"
    /\ onTradeCalls = 0
    /\ file = NoFile
    /\ twin = [L |-> Ledger, order |-> NoOrder, err |-> ""]
    /\ tfResult = NotCalled
    /\ hub = NewHub
    /\ bot = NewBotController

\* The ledger used by its callers directly: no engine runs.
Init ==
    /\ InitBroker
    /\ tf = ""
    /\ pcE = "idle"
    /\ nCandles = 0
    /\ runErr = ""

PlaceOrder ==
    /\ steps < MaxSteps
    /\ \E order \in OrderInputs :
          LET r == PlaceOrderResult(Ledger, order, nextId) IN
          /\ InRange(Ledger, order)
          /\ Install(r.L, snap, held)
          /\ last' = Call("PlaceOrder", order, r.order, r.err, Ledger)
          /\ life' = LifeAfter(Ledger, r)
    /\ nextId' = nextId + 1
    /\ steps' = steps + 1
    /\ UNCHANGED <<cfg, snap, held, seen, recorded, lockVars, runVars, file>>

\* The identifiers callers cancel: those PlaceOrder has given out (of orders
\* open, filled, rejected or cancelled before), and one that no order has.
CancelIds == 1..nextId

CancelOrder ==
    /\ steps < MaxSteps
    /\ \E orderID \in CancelIds :
          LET r == CancelOrderResult(Ledger, orderID) IN
          /\ Install(r.L, snap, held)
          /\ last' = Call("CancelOrder", orderID, r.order, r.err, Ledger)
    /\ steps' = steps + 1
    /\ UNCHANGED <<cfg, nextId, snap, held, life, seen, recorded, lockVars, runVars, file>>

UpdateMarketPrice ==
    /\ steps < MaxSteps
    /\ \E symbol \in Symbols, price \in TickPrices :
          /\ Install(UpdateMarketPriceResult(Ledger, symbol, price), snap, held)
          /\ last' = Call("UpdateMarketPrice", <<symbol, price>>, NoOrder, "", Ledger)
          /\ recorded' = recorded \cup {symbol}
    /\ steps' = steps + 1
    /\ UNCHANGED <<cfg, nextId, snap, held, life, seen, lockVars, runVars, file>>

GetAccount ==
    /\ steps < MaxSteps
    /\ \E order \in RangeOrders(Ledger) : snap' = GetAccountResult(Ledger, order)
    /\ seen' = [seen EXCEPT !.account = Deref(heap, snap'.positions)]
    /\ Install(Ledger, snap', held)
    /\ last' = Call("GetAccount", "", NoOrder, "", Ledger)
    /\ steps' = steps + 1
    /\ UNCHANGED <<cfg, nextId, held, life, recorded, lockVars, runVars, file>>

GetPosition ==
    /\ steps < MaxSteps
    /\ \E symbol \in Symbols :
          /\ held' = GetPositionResult(Ledger, symbol)
          /\ seen' = [seen EXCEPT !.position = IF held' = NoObj THEN NoPos ELSE heap[held']]
          /\ Install(Ledger, snap, held')
          /\ last' = Call("GetPosition", symbol, NoOrder, "", Ledger)
    /\ steps' = steps + 1
    /\ UNCHANGED <<cfg, nextId, snap, life, recorded, lockVars, runVars, file>>

Next ==
    \/ PlaceOrder
    \/ CancelOrder
    \/ UpdateMarketPrice
    \/ GetAccount
    \/ GetPosition

Spec == Init /\ [][Next]_vars

(***************************************************************************)
(* The ledger under concurrent callers: one caller of PlaceOrder and the   *)
(* callers of GetAccount, each taking the statements of its method one at  *)
(* a time, with b.mu deciding who may proceed.                             *)
(***************************************************************************)
MaxPlaced == 2
MaxSnapshots == 1

\* The orders the PlaceOrder caller places: whole quantities of one symbol,
\* an invalid order and a limit order.
LockOrders ==
    { Order(sd, OrderTypeMarket, "BTC/USD", q, RInt(100)) :
        sd \in {OrderSideBuy, OrderSideSell}, q \in {RInt(1), RInt(2)} }
    \cup { Order(OrderSideBuy, OrderTypeMarket, "BTC/USD", R0, RInt(100)),
           Order(OrderSideBuy, OrderTypeLimit, "BTC/USD", RInt(1), RInt(100)) }

\* b.mu.Lock() returns once no reader and no writer holds the lock
CanLock == ~mu.writer /\ mu.readers = 0

\* b.mu.RLock() proceeding while PlaceOrder holds the write lock
CanRLock_IgnoreWriter == TRUE

\* b.mu.RLock() returns once no writer holds the lock
CanRLock == ~mu.writer

\* PlaceOrder, lines 76-80: take the write lock, give the order its identifier
W_Lock ==
    /\ pcW = "idle"
    /\ nextId <= MaxPlaced
    /\ CanLock
    /\ \E order \in LockOrders : wOrder' = [order EXCEPT !.id = nextId]
    /\ mu' = [mu EXCEPT !.writer = TRUE]
    /\ nextId' = nextId + 1
    /\ pcW' = "validate"
    /\ UNCHANGED <<cfg, balance, positions, accPositions, openOrders, tradeHistory,
                   marketPrices, heap, seqVars, runVars, file, pcR, rd, results, calls, commits>>

\* PlaceOrder, lines 83-99, and executeMarketOrder, lines 144-169: reject,
\* queue a limit order, or price a market order and check the balance
W_Validate ==
    /\ pcW = "validate"
    /\ IF validateOrder(wOrder) # ""
       THEN /\ wOrder' = [wOrder EXCEPT !.status = OrderStatusRejected]
            /\ pcW' = "unlock"
            /\ UNCHANGED openOrders
       ELSE IF wOrder.type # OrderTypeMarket
       THEN /\ wOrder' = [wOrder EXCEPT !.status = OrderStatusPending]
            /\ openOrders' = Append(openOrders, wOrder')
            /\ pcW' = "unlock"
       ELSE /\ wOrder' = priceOrder(Ledger, wOrder)
            /\ pcW' = IF wOrder.side = OrderSideBuy
                      THEN IF InsufficientBalance(totalCost(wOrder'), balance)
                           THEN "unlock" ELSE "debit"
                      ELSE IF positions[wOrder.symbol] = NoObj THEN "status" ELSE "trade"
            /\ UNCHANGED openOrders
    /\ UNCHANGED <<cfg, balance, positions, accPositions, tradeHistory, marketPrices,
                   heap, nextId, seqVars, runVars, file, mu, pcR, rd, results, calls, commits>>

\* One statement of the fill: the ledger becomes f(ledger, order).
W_Step(at, L, to) ==
    /\ pcW = at
    /\ Install(L, snap, held)
    /\ pcW' = to
    /\ UNCHANGED <<cfg, nextId, seqVars, runVars, file, mu, wOrder, pcR, rd, results, calls, commits>>

\* executeMarketOrder, line 170
W_Debit == W_Step("debit", debitBalance(Ledger, wOrder), "open")

\* executeMarketOrder, line 175
W_Open == W_Step("open", openPosition(Ledger, wOrder), "status")

\* closePosition, line 252
W_Trade == W_Step("trade", appendTrade(Ledger, wOrder), "credit")

\* closePosition, line 256
W_Credit == W_Step("credit", creditBalance(Ledger, wOrder), "reduce")

\* closePosition, lines 259-271
W_Reduce == W_Step("reduce", reducePosition(Ledger, wOrder), "status")

\* executeMarketOrder, line 180
W_Status ==
    /\ pcW = "status"
    /\ wOrder' = [wOrder EXCEPT !.status = OrderStatusFilled]
    /\ pcW' = "unlock"
    /\ UNCHANGED <<cfg, balance, positions, accPositions, openOrders, tradeHistory,
                   marketPrices, heap, nextId, seqVars, runVars, file, mu, pcR, rd, results, calls,
                   commits>>

\* PlaceOrder's deferred b.mu.Unlock()
W_Unlock ==
    /\ pcW = "unlock"
    /\ mu' = [mu EXCEPT !.writer = FALSE]
    /\ commits' = commits \cup {Snapshot(Ledger)}
    /\ pcW' = "idle"
    /\ UNCHANGED <<cfg, balance, positions, accPositions, openOrders, tradeHistory,
                   marketPrices, heap, nextId, seqVars, runVars, file, wOrder, pcR, rd, results, calls>>

\* One statement of GetAccount by caller r.
R_Step(r, at, account, to) ==
    /\ pcR[r] = at
    /\ rd' = [rd EXCEPT ![r] = account]
    /\ pcR' = [pcR EXCEPT ![r] = to]

\* GetAccount, line 55
R_RLock(r) ==
    /\ calls[r] < MaxSnapshots
    /\ CanRLock
    /\ R_Step(r, "idle", [taken |-> TRUE], "balance")
    /\ mu' = [mu EXCEPT !.readers = @ + 1]
    /\ calls' = [calls EXCEPT ![r] = @ + 1]
    /\ UNCHANGED <<cfg, balance, positions, accPositions, openOrders, tradeHistory,
                   marketPrices, heap, nextId, seqVars, runVars, file, pcW, wOrder, results, commits>>

\* GetAccount, lines 60-61 and 64: Balance, Equity and TradeHistory
R_Fields(r) ==
    /\ \E order \in RangeOrders(Ledger) :
          R_Step(r, "balance",
                 [taken |-> TRUE, balance |-> balance,
                  equity |-> calculateEquity(Ledger, order),
                  tradeHistory |-> tradeHistory],
                 "copy")
    /\ UNCHANGED <<cfg, balance, positions, accPositions, openOrders, tradeHistory,
                   marketPrices, heap, nextId, seqVars, runVars, file, mu, pcW, wOrder, results, calls,
                   commits>>

\* GetAccount, lines 68-69: the positions and the open orders copied;
\* positions holds what the copied pointers show at this moment
R_Copy(r) ==
    /\ R_Step(r, "copy",
              [taken |-> TRUE, balance |-> rd[r].balance, equity |-> rd[r].equity,
               tradeHistory |-> rd[r].tradeHistory,
               positions |-> Deref(heap, accPositions), openOrders |-> openOrders],
              "unlock")
    /\ UNCHANGED <<cfg, balance, positions, accPositions, openOrders, tradeHistory,
                   marketPrices, heap, nextId, seqVars, runVars, file, mu, pcW, wOrder, results, calls,
                   commits>>

\* GetAccount's deferred b.mu.RUnlock(), and the return
R_RUnlock(r) ==
    /\ pcR[r] = "unlock"
    /\ mu' = [mu EXCEPT !.readers = @ - 1]
    /\ results' = [results EXCEPT ![r] = rd[r]]
    /\ pcR' = [pcR EXCEPT ![r] = "idle"]
    /\ UNCHANGED <<cfg, balance, positions, accPositions, openOrders, tradeHistory,
                   marketPrices, heap, nextId, seqVars, runVars, file, pcW, wOrder, rd, calls, commits>>

NextLock ==
    \/ W_Lock
    \/ W_Validate
    \/ W_Debit
    \/ W_Open
    \/ W_Trade
    \/ W_Credit
    \/ W_Reduce
    \/ W_Status
    \/ W_Unlock
    \/ \E r \in Readers : R_RLock(r)
    \/ \E r \in Readers : R_Fields(r)
    \/ \E r \in Readers : R_Copy(r)
    \/ \E r \in Readers : R_RUnlock(r)

SpecLock == Init /\ [][NextLock]_vars


(***************************************************************************)
(* The engine (internal/engine/engine.go), the state store                 *)
(* (internal/store/filestore.go) and the program that runs them (main).    *)
(***************************************************************************)
MaxCandles == 11
MaxSignals == 2

\* The lengths of the candle sequences explored: none, one, and those that
\* end at and just after the first checkpoint.
Lengths == {0, 1, MaxCandles - 1, MaxCandles}

\* The ledger the engine is run with: two units can be bought, a third not.
RunConfig == [initialBalance |-> RInt(250), takerFee |-> R(1, 100), slippageBps |-> RInt(100)]

SignalActionBuy == "buy"
SignalActionSell == "sell"
SignalActionHold == "hold"

Signal(action, symbol, quantity) ==
    [action |-> action, symbol |-> symbol, quantity |-> quantity]

\* What a Strategy's OnCandle may return: hold, buys and sells of the
\* engine's symbol, a buy with quantity 0 and an action the engine does not
\* know.
Signals ==
    { Signal(SignalActionHold, "", R0),
      Signal(SignalActionBuy, "BTC/USD", RInt(1)),
      Signal(SignalActionBuy, "BTC/USD", RInt(2)),
      Signal(SignalActionSell, "BTC/USD", RInt(1)),
      Signal(SignalActionBuy, "BTC/USD", R0),
      Signal("short", "BTC/USD", RInt(1)) }

\* Run, line 85: the symbol whose price every candle updates
EngineSymbol == "BTC/USD"

\* Run, line 114: a checkpoint is due after the candle at index i
CheckpointInterval == 10

SaveDue(i) == i % CheckpointInterval = 0 /\ i > 0

\* The order executeBuy and executeSell build from a signal and a candle.
SignalOrder(side, signal, close) ==
    [Order(side, OrderTypeMarket, signal.symbol, signal.quantity, close)
        EXCEPT !.status = OrderStatusPending]

\* executeBuy placing the order a second time when the ledger refused it
executeBuy_RetryRejected(L, signal, close, id) ==
    LET r == PlaceOrderResult(L, SignalOrder(OrderSideBuy, signal, close), id)
    IN  IF r.err = "" THEN r
        ELSE PlaceOrderResult(r.L, SignalOrder(OrderSideBuy, signal, close), id + 1)

executeBuy(L, signal, close, id) ==
    PlaceOrderResult(L, SignalOrder(OrderSideBuy, signal, close), id)

\* executeSell placing the order whether or not a position is held
executeSell_NoPositionCheck(L, signal, close, id) ==
    PlaceOrderResult(L, SignalOrder(OrderSideSell, signal, close), id)

executeSell(L, signal, close, id) ==
    LET position == GetPositionResult(L, signal.symbol) IN
    IF position = NoObj \/ L.heap[position].quantity = R0
    THEN [L |-> L, order |-> NoOrder, err |-> ""]
    ELSE PlaceOrderResult(L, SignalOrder(OrderSideSell, signal, close), id)

\* executeSignal taking an action it does not know as hold
executeSignal_UnknownIsHold(L, signal, close, id) ==
    IF signal.action = SignalActionBuy THEN executeBuy(L, signal, close, id)
    ELSE IF signal.action = SignalActionSell THEN executeSell(L, signal, close, id)
    ELSE [L |-> L, order |-> NoOrder, err |-> ""]

executeSignal(L, signal, close, id) ==
    IF signal.action = SignalActionBuy THEN executeBuy(L, signal, close, id)
    ELSE IF signal.action = SignalActionSell THEN executeSell(L, signal, close, id)
    ELSE IF signal.action = SignalActionHold THEN [L |-> L, order |-> NoOrder, err |-> ""]
    ELSE [L |-> L, order |-> NoOrder, err |-> "unknown signal action"]

\* json.MarshalIndent of the *Account GetAccount returns: the pointers are
\* followed, so the file holds the positions' values (UpdatedAt left out).
MarshalAccount(L, order) ==
    LET account == GetAccountResult(L, order) IN
    [balance |-> account.balance,
     equity |-> account.equity,
     positions |-> Deref(L.heap, account.positions),
     openOrders |-> account.openOrders,
     tradeHistory |-> account.tradeHistory]

\* A state file os.WriteFile gave up on after truncating it.
TruncatedFile == [exists |-> TRUE, valid |-> FALSE]

\* FileStore.SaveState: the file and the error it can end with.  A failed
\* os.WriteFile leaves the old file or a truncated one.
SaveStateResults(L, f) ==
    { [file |-> [exists |-> TRUE, valid |-> TRUE, account |-> MarshalAccount(L, order)],
       err |-> ""] : order \in RangeOrders(L) }
    \cup
    { [file |-> f, err |-> "failed to write state file"],
      [file |-> TruncatedFile, err |-> "failed to write state file"] }

\* FileStore.LoadState: the file is read and parsed into a local Account,
\* which is then dropped; the broker is not written to.
LoadStateResult(L, f) ==
    IF ~f.exists THEN [L |-> L, err |-> "state file does not exist"]
    ELSE IF ~f.valid THEN [L |-> L, err |-> "failed to unmarshal state"]
    ELSE [L |-> L, err |-> ""]

\* select on ctx.Done() with a default case: taken once ctx is cancelled
Cancelled_Never == FALSE

Cancelled == ctxDone

\* the loop index after a candle whose signal failed, the failure ending the loop
AfterError_EndsLoop(i) == nCandles

\* Run, line 110: continue, to the next candle
AfterError(i) == i + 1

\* The run explored: a strategy gives at most MaxSignals signals other than
\* hold.
InitRun ==
    /\ InitBroker
    /\ tf = ""
    /\ cfg = RunConfig
    /\ pcE = "check"
    /\ nCandles \in Lengths
    /\ runErr = "running"

\* The goroutine main starts on SIGINT/SIGTERM: cancel()
Cancel ==
    /\ pcE \in {"check", "candle"}
    /\ ~ctxDone
    /\ ctxDone' = TRUE
    /\ UNCHANGED <<cfg, balance, positions, accPositions, openOrders, tradeHistory,
                   marketPrices, heap, nextId, seqVars, lockVars, pcE, idx, nCandles,
                   runErr, file, processed, lastCandle, failed, finalSave, onTradeCalls,
                   twin, tf, tfResult, hub, bot>>

\* Run, lines 75-82 and 121-122: the loop's header and the check of ctx.
\* When Run returns an error main exits without saving.
E_Check ==
    /\ pcE = "check"
    /\ IF idx >= nCandles
       THEN runErr' = "nil" /\ pcE' = "returned"
       ELSE IF Cancelled
       THEN runErr' = "context canceled" /\ pcE' = "exit"
       ELSE runErr' = runErr /\ pcE' = "candle"
    /\ UNCHANGED <<cfg, balance, positions, accPositions, openOrders, tradeHistory,
                   marketPrices, heap, nextId, seqVars, lockVars, idx, nCandles,
                   ctxDone, file, processed, lastCandle, failed, finalSave,
                   onTradeCalls, twin, tf, tfResult, hub, bot>>

\* The same candle and the same signal in the second run, whose broker gives
\* its orders other identifiers.
TwinCandle(close, signal) ==
    LET r == executeSignal(UpdateMarketPriceResult(twin.L, EngineSymbol, close),
                           signal, close, -nextId)
    IN  [L |-> [r.L EXCEPT !.heap = Collect(r.L, NoSnap, NoObj)],
         order |-> r.order, err |-> r.err]

\* Run, lines 84-111, with the account taken before the price is updated
CandleSteps_AccountFirst(L, close, signal, id, order) ==
    LET L1 == UpdateMarketPriceResult(L, EngineSymbol, close)
    IN  [marked |-> L1,
         account |-> GetAccountResult(L, order),
         r |-> executeSignal(L1, signal, close, id)]

\* Run, lines 84-111: UpdateMarketPrice with the candle's close, GetAccount,
\* OnCandle with the candle and that account (its answer is signal), and
\* executeSignal
CandleSteps(L, close, signal, id, order) ==
    LET L1 == UpdateMarketPriceResult(L, EngineSymbol, close)
    IN  [marked |-> L1,
         account |-> GetAccountResult(L1, order),
         r |-> executeSignal(L1, signal, close, id)]

\* Run, lines 84-118: one candle.  The price is updated, the strategy gives
\* its signal for the account, the signal is executed, and when that went
\* well and a checkpoint is due the state is saved.
E_Candle ==
    /\ pcE = "candle"
    /\ \E close \in MarkPrices, signal \in Signals :
       \E order \in RangeOrders(UpdateMarketPriceResult(Ledger, EngineSymbol, close)) :
          LET c == CandleSteps(Ledger, close, signal, nextId, order)
              L1 == c.marked
              r == c.r
              ok == r.err = ""
          IN  /\ signal.action # SignalActionHold => steps < MaxSignals
              /\ steps' = IF signal.action # SignalActionHold THEN steps + 1 ELSE steps
              /\ snap' = c.account
              /\ seen' = [seen EXCEPT !.account = Deref(L1.heap, c.account.positions)]
              /\ Install(r.L, snap', held)
              /\ last' = Call("executeSignal", signal, r.order, r.err, L1)
              /\ life' = IF r.order = NoOrder THEN life ELSE LifeAfter(L1, r)
              /\ nextId' = IF r.order = NoOrder THEN nextId ELSE nextId + 1
              /\ twin' = TwinCandle(close, signal)
              /\ idx' = IF ok THEN idx + 1 ELSE AfterError(idx)
              /\ IF ok /\ SaveDue(idx)
                 THEN \E s \in SaveStateResults(r.L, file) :
                        /\ file' = s.file
                        /\ lastCandle' = [i |-> idx, close |-> close, err |-> FALSE,
                                          saved |-> IF s.err = "" THEN "ok" ELSE "failed"]
                        /\ failed' = IF s.err = "" THEN failed ELSE failed \cup {"save"}
                 ELSE /\ file' = file
                      /\ lastCandle' = [i |-> idx, close |-> close, err |-> ~ok,
                                        saved |-> "none"]
                      /\ failed' = IF ok THEN failed
                                   ELSE IF r.order = NoOrder THEN failed \cup {"signal"}
                                   ELSE failed \cup {"order"}
    /\ processed' = processed + 1
    /\ recorded' = recorded \cup {EngineSymbol}
    /\ pcE' = "check"
    /\ UNCHANGED <<cfg, held, lockVars, nCandles, ctxDone, runErr,
                   finalSave, onTradeCalls, tf, tfResult, hub, bot>>

\* main, after Run has returned nil: "Save final state"
M_SaveFinal ==
    /\ pcE = "returned"
    /\ \E s \in SaveStateResults(Ledger, file) :
          /\ file' = s.file
          /\ finalSave' = IF s.err = "" THEN "ok" ELSE "failed"
    /\ pcE' = "exit"
    /\ UNCHANGED <<cfg, balance, positions, accPositions, openOrders, tradeHistory,
                   marketPrices, heap, nextId, seqVars, lockVars, idx, nCandles,
                   ctxDone, runErr, processed, lastCandle, failed, onTradeCalls,
                   twin, tf, tfResult, hub, bot>>

NextRun ==
    \/ Cancel
    \/ E_Check
    \/ E_Candle
    \/ M_SaveFinal

SpecRun == InitRun /\ [][NextRun]_vars

(***************************************************************************)
(* The ledger and its state file across restarts of the program: orders    *)
(* and prices reach the ledger, the state is saved, and the program starts *)
(* again with a new ledger and loads the state.                            *)
(***************************************************************************)
\* The ledger NewPaperBroker builds.
NewLedger ==
    [balance |-> cfg.initialBalance,
     positions |-> [s \in Symbols |-> NoObj],
     accPositions |-> <<>>,
     openOrders |-> <<>>,
     tradeHistory |-> <<>>,
     marketPrices |-> [s \in Symbols |-> R0],
     heap |-> [i \in ObjIds |-> NoPos]]

SaveState ==
    /\ steps < MaxSteps
    /\ \E s \in SaveStateResults(Ledger, file) :
          /\ file' = s.file
          /\ last' = Call("SaveState", "", NoOrder, s.err, Ledger)
    /\ steps' = steps + 1
    /\ UNCHANGED <<cfg, balance, positions, accPositions, openOrders, tradeHistory,
                   marketPrices, heap, nextId, snap, held, life, seen, recorded,
                   lockVars, runVars>>

\* main on a new start: NewPaperBroker, then LoadState into the new broker
Restart ==
    /\ steps < MaxSteps
    /\ LET r == LoadStateResult(NewLedger, file) IN
          /\ Install(r.L, NoSnap, NoObj)
          /\ last' = Call("LoadState", "", NoOrder, r.err, NewLedger)
    /\ snap' = NoSnap
    /\ held' = NoObj
    /\ life' = [s \in Symbols |-> NoFill]
    /\ seen' = [account |-> <<>>, position |-> NoPos]
    /\ recorded' = {}
    /\ steps' = steps + 1
    /\ UNCHANGED <<cfg, nextId, lockVars, runVars, file>>

NextStore ==
    \/ PlaceOrder
    \/ UpdateMarketPrice
    \/ SaveState
    \/ Restart

SpecStore == Init /\ [][NextStore]_vars

(***************************************************************************)
(* The methods of a Timeframe, called on one value                         *)
(***************************************************************************)
TimeframeFrame ==
    UNCHANGED <<cfg, balance, positions, accPositions, openOrders, tradeHistory,
                marketPrices, heap, nextId, seqVars, lockVars, pcE, idx, nCandles,
                ctxDone, runErr, file, processed, lastCandle, failed, finalSave,
                onTradeCalls, twin, tf, hub, bot>>

InitTimeframe ==
    /\ InitBroker
    /\ cfg = RunConfig
    /\ tf \in TimeframeInputs
    /\ pcE = "idle"
    /\ nCandles = 0
    /\ runErr = ""

T_ToMinutes ==
    /\ tfResult.ToMinutes = <<>>
    /\ tfResult' = [tfResult EXCEPT !.ToMinutes = <<ToMinutes(tf)>>]
    /\ TimeframeFrame

T_ToDuration ==
    /\ tfResult.ToDuration = <<>>
    /\ tfResult' = [tfResult EXCEPT !.ToDuration = <<ToDuration(tf)>>]
    /\ TimeframeFrame

T_IsValid ==
    /\ tfResult.IsValid = <<>>
    /\ tfResult' = [tfResult EXCEPT !.IsValid = <<IsValid(tf)>>]
    /\ TimeframeFrame

NextTimeframe ==
    \/ T_ToMinutes
    \/ T_ToDuration
    \/ T_IsValid

SpecTimeframe == InitTimeframe /\ [][NextTimeframe]_vars

(***************************************************************************)
(* The hub's goroutine (Run), the connections' handlers and pumps, and the *)
(* callers of the Broadcast methods                                        *)
(***************************************************************************)
HubFrame ==
    UNCHANGED <<cfg, balance, positions, accPositions, openOrders, tradeHistory,
                marketPrices, heap, nextId, seqVars, lockVars, pcE, idx, nCandles,
                ctxDone, runErr, file, processed, lastCandle, failed, finalSave,
                onTradeCalls, twin, tf, tfResult, bot>>

\* HandleWebSocket, lines 213-218, meeting Run's case <-h.Register
H_Register ==
    /\ hub.panics = {}
    /\ hub.pc = "select"
    /\ \E c \in HubClients :
          /\ hub.conn[c] = "none"
          /\ hub' = RegisterResult(hub, c)
    /\ HubFrame

\* ReadPump, lines 187-192: ReadMessage fails and the deferred function runs
C_ReadError ==
    /\ hub.panics = {}
    /\ \E c \in HubClients :
          /\ hub.conn[c] = "pumps"
          /\ hub' = [hub EXCEPT !.conn[c] = "leaving"]
    /\ HubFrame

\* ReadPump, line 177, meeting Run's case <-h.unregister
H_Unregister ==
    /\ hub.panics = {}
    /\ hub.pc = "select"
    /\ \E c \in HubClients :
          /\ hub.conn[c] = "leaving"
          /\ hub' = UnregisterResult(hub, c)
    /\ HubFrame

\* A Broadcast method: h.broadcast <- Event{...}
P_Broadcast ==
    /\ hub.panics = {}
    /\ hub.produced < MaxEvents
    /\ hub' = [hub EXCEPT !.produced = @ + 1,
                          !.broadcast = Append(@, hub.produced + 1)]
    /\ HubFrame

\* Run, lines 89-91: an event is received and the range over h.clients begins
H_Receive ==
    /\ hub.panics = {}
    /\ hub.pc = "select"
    /\ hub.broadcast # <<>>
    /\ hub' = [hub EXCEPT !.broadcast = Tail(@),
                          !.event = Head(hub.broadcast),
                          !.pc = "range",
                          !.todo = hub.clients,
                          !.started = hub.clients]
    /\ HubFrame

\* Run, lines 91-98: the range visits a client, in the map's order
H_Visit ==
    /\ hub.panics = {}
    /\ hub.pc = "range"
    /\ \E c \in hub.todo : hub' = VisitResult(hub, c)
    /\ HubFrame

\* Run, lines 98-99: the range is over
H_RangeDone ==
    /\ hub.panics = {}
    /\ hub.pc = "range"
    /\ hub.todo = {}
    /\ hub' = [hub EXCEPT !.pc = "select"]
    /\ HubFrame

\* WritePump, lines 205-220: an event is taken from c.send and written, the
\* pump ending when the write fails or the channel is closed and empty
W_Write ==
    /\ hub.panics = {}
    /\ \E c \in HubClients :
          /\ hub.conn[c] # "none"
          /\ hub.writer[c] = "run"
          /\ \/ /\ hub.send[c] # <<>>
                /\ \E w \in {"run", "done"} :
                      hub' = [hub EXCEPT !.send[c] = Tail(@), !.writer[c] = w]
             \/ /\ hub.send[c] = <<>>
                /\ hub.closes[c] > 0
                /\ hub' = [hub EXCEPT !.writer[c] = "done"]
    /\ HubFrame

NextHub ==
    \/ H_Register
    \/ C_ReadError
    \/ H_Unregister
    \/ P_Broadcast
    \/ H_Receive
    \/ H_Visit
    \/ H_RangeDone
    \/ W_Write

InitHub == Init /\ cfg = RunConfig

SpecHub == InitHub /\ [][NextHub]_vars

(***************************************************************************)
(* The callers of the BotController's API and the run loops.  Start, Stop  *)
(* and Configure hold bc.mu from beginning to end; run holds no lock.      *)
(***************************************************************************)
BotFrame ==
    UNCHANGED <<cfg, balance, positions, accPositions, openOrders, tradeHistory,
                marketPrices, heap, nextId, seqVars, lockVars, pcE, idx, nCandles,
                ctxDone, runErr, file, processed, lastCandle, failed, finalSave,
                onTradeCalls, twin, tf, tfResult, hub>>

\* The controller after a call: its result, and what the call was
Called(r, op, arg, by) ==
    [r.bc EXCEPT !.last = [op |-> op, arg |-> arg, err |-> r.err, by |-> by,
                           pre |-> Fields(bot)]]

B_Start ==
    /\ bot.calls < MaxCalls
    /\ bot.starts < MaxStarts
    /\ bot' = [Called(StartResult(bot), "Start", <<>>, 0) EXCEPT !.calls = @ + 1]
    /\ BotFrame

B_Stop ==
    /\ bot.calls < MaxCalls
    /\ bot' = [Called(StopResult(bot), "Stop", <<>>, 0) EXCEPT !.calls = @ + 1]
    /\ BotFrame

B_Configure ==
    /\ bot.calls < MaxCalls
    /\ \E c \in ConfigureInputs :
          bot' = [Called(ConfigureResult(bot, c[1], c[2], c[3], c[4]), "Configure", c, 0)
                    EXCEPT !.calls = @ + 1]
    /\ BotFrame

\* run, lines 106-113: GetCandles succeeds or fails
L_Load ==
    /\ \E k \in Loops :
          /\ bot.loops[k].pc = "load"
          /\ \E pc \in {"check", "finish"} : bot' = [bot EXCEPT !.loops[k].pc = pc]
    /\ BotFrame

\* run, lines 116-121: the next candle, if any, and the select on bc.stopChan
L_Check ==
    /\ \E k \in Loops :
          /\ bot.loops[k].pc = "check"
          /\ IF bot.loops[k].i >= NCandles
             THEN bot' = [bot EXCEPT !.loops[k].pc = "finish"]
             ELSE \E ch \in StopChanRead(bot, k) :
                    IF ch \in bot.closed
                    THEN bot' = [bot EXCEPT !.loops[k].pc = "done"]
                    ELSE bot' = [bot EXCEPT !.loops[k].pc = "candle",
                                            !.loops[k].missedStop = @ \/ k \in bot.closed]
    /\ BotFrame

\* run, lines 123-152: the candle is broadcast and processed
L_Candle ==
    /\ \E k \in Loops :
          /\ bot.loops[k].pc = "candle"
          /\ bot' = [bot EXCEPT !.loops[k].pc = "check", !.loops[k].i = @ + 1]
    /\ BotFrame

\* run, lines 109 and 156: bc.Stop()
L_Finish ==
    /\ \E k \in Loops :
          /\ bot.loops[k].pc = "finish"
          /\ LET r == StopResult(bot) IN
             bot' = [Called(r, "Stop", <<>>, k)
                       EXCEPT !.loops[k].pc = "done",
                              !.loops[k].stoppedLater = r.err = "" /\ bot.stopChan # k]
    /\ BotFrame

NextBot ==
    \/ B_Start
    \/ B_Stop
    \/ B_Configure
    \/ L_Load
    \/ L_Check
    \/ L_Candle
    \/ L_Finish

InitBot == Init /\ cfg = RunConfig

SpecBot == InitBot /\ [][NextBot]_vars


(***************************************************************************)
(* Properties of the ledger                                                *)
(***************************************************************************)
\* What a caller can read of a ledger: balance, the positions by symbol and
\* in the account's list (as values), trade history and open orders.
View(L) ==
    [balance |-> L.balance,
     positions |-> [s \in Symbols |->
                      IF L.positions[s] = NoObj THEN NoPos ELSE L.heap[L.positions[s]]],
     accPositions |-> Deref(L.heap, L.accPositions),
     tradeHistory |-> L.tradeHistory,
     openOrders |-> L.openOrders]

Placed == last.op = "PlaceOrder"

\* The latest call placed a well-formed market order of the given side.
PlacedMarket(side) ==
    /\ Placed
    /\ last.arg.type = OrderTypeMarket
    /\ last.arg.side = side
    /\ RLt(R0, last.arg.quantity)
    /\ last.arg.symbol # ""

\* The price the order is filled from, and the fill's figures as the
\* specification states them.
MarkOf(order) ==
    IF last.pre.marketPrices[order.symbol] = R0 THEN order.price
    ELSE last.pre.marketPrices[order.symbol]

SlipOf(order) == RDiv(RMul(MarkOf(order), cfg.slippageBps), RInt(10000))

FillOf(order) ==
    IF order.side = OrderSideBuy THEN RAdd(MarkOf(order), SlipOf(order))
    ELSE RSub(MarkOf(order), SlipOf(order))

FeeOf(order) == RMul(RMul(FillOf(order), order.quantity), cfg.takerFee)

CostOf(order) == RAdd(RMul(FillOf(order), order.quantity), FeeOf(order))

HadPosition(symbol) == last.pre.positions[symbol] # NoObj

PrePosition(symbol) == last.pre.heap[last.pre.positions[symbol]]

HasPosition(symbol) == positions[symbol] # NoObj

PositionOf(symbol) == heap[positions[symbol]]

ScenarioConfig ==
    [initialBalance |-> RInt(10000), takerFee |-> R(1, 1000), slippageBps |-> RInt(5)]

----------------------------------------------------------------------------
\* C1: whenever PlaceOrder returns an error, the ledger's balance, positions,
\* trade history and open orders are the same after the call as before it.
C1_RejectionPurity ==
    (Placed /\ last.err # "") => View(Ledger) = View(last.pre)

\* an insufficient-balance rejection on a ledger that holds a position
C1_Witness ==
    /\ Placed
    /\ last.err = "insufficient balance"
    /\ accPositions # <<>>

----------------------------------------------------------------------------
RECURSIVE SumNetPnL(_)
SumNetPnL(trades) ==
    IF trades = <<>> THEN R0 ELSE RAdd(Head(trades).netPnL, SumNetPnL(Tail(trades)))

\* C2: whenever no position is open, the balance equals the initial balance
\* plus the sum of NetPnL over the trade history.
C2_BalanceIsInitialPlusNetPnL ==
    (\A s \in Symbols : ~HasPosition(s))
        => RSub(balance, cfg.initialBalance) = SumNetPnL(tradeHistory)

----------------------------------------------------------------------------
\* C4: what is read through an Account returned by GetAccount, and through a
\* Position returned by GetPosition, stays what it was when it was returned.
C4_ResultsAreIndependentCopies ==
    /\ snap.taken => Deref(heap, snap.positions) = seen.account
    /\ held # NoObj => heap[held] = seen.position

----------------------------------------------------------------------------
\* C5: a market buy of q at recorded mark price m > 0 whose cost fits the
\* balance is filled with slippage m * bps / 10000, at m + slippage, with fee
\* fill price * q * takerFee; the balance drops by fill price * q + fee; with
\* no position open, one is created with that entry price and quantity
\* (10000, 0.001, 5 bps, q = 1, m = 100: balance 9899.84995, entry 100.05).
C5_MarketBuyFill ==
    LET o == last.arg
        s == o.symbol
    IN  (/\ PlacedMarket(OrderSideBuy)
         /\ RLt(R0, last.pre.marketPrices[s])
         /\ RLe(CostOf(o), last.pre.balance))
        => /\ last.err = ""
           /\ last.order.status = OrderStatusFilled
           /\ last.order.slippage = SlipOf(o)
           /\ last.order.filledPrice = RAdd(last.pre.marketPrices[s], SlipOf(o))
           /\ last.order.fee = FeeOf(o)
           /\ balance = RSub(last.pre.balance, CostOf(o))
           /\ ~HadPosition(s) =>
                /\ HasPosition(s)
                /\ PositionOf(s).entryPrice = FillOf(o)
                /\ PositionOf(s).quantity = o.quantity
           /\ (/\ cfg = ScenarioConfig
               /\ last.pre.balance = RInt(10000)
               /\ o.quantity = RInt(1)
               /\ last.pre.marketPrices[s] = RInt(100)
               /\ ~HadPosition(s))
              => /\ balance = R(989984995, 100000)
                 /\ PositionOf(s).entryPrice = R(10005, 100)

\* the scenario's buy has been filled
C5_Witness ==
    /\ PlacedMarket(OrderSideBuy)
    /\ cfg = ScenarioConfig
    /\ last.pre.balance = RInt(10000)
    /\ last.arg.quantity = RInt(1)
    /\ last.pre.marketPrices[last.arg.symbol] = RInt(100)
    /\ last.order.status = OrderStatusFilled
    /\ balance = R(989984995, 100000)

----------------------------------------------------------------------------
\* The general part of C6: a market sell of q, not more than is held, at
\* recorded mark price m fills at m - m * bps / 10000, appends exactly one
\* Trade with PnL = (fill price - entry price) * q and NetPnL = PnL - fee,
\* raises the balance by fill price * q - fee and reduces the position by q.
SellWithinHolding ==
    /\ PlacedMarket(OrderSideSell)
    /\ RLt(R0, last.pre.marketPrices[last.arg.symbol])
    /\ HadPosition(last.arg.symbol)
    /\ RLe(last.arg.quantity, PrePosition(last.arg.symbol).quantity)

MarketSellFill ==
    LET o == last.arg
        s == o.symbol
        m == last.pre.marketPrices[s]
        fill == RSub(m, RDiv(RMul(m, cfg.slippageBps), RInt(10000)))
        t == tradeHistory[Len(tradeHistory)]
        left == RSub(PrePosition(s).quantity, o.quantity)
    IN  SellWithinHolding
        => /\ last.err = ""
           /\ last.order.status = OrderStatusFilled
           /\ last.order.filledPrice = fill
           /\ Len(tradeHistory) = Len(last.pre.tradeHistory) + 1
           /\ SubSeq(tradeHistory, 1, Len(last.pre.tradeHistory)) = last.pre.tradeHistory
           /\ t.pnl = RMul(RSub(fill, PrePosition(s).entryPrice), o.quantity)
           /\ t.netPnL = RSub(t.pnl, FeeOf(o))
           /\ balance = RAdd(last.pre.balance, RSub(RMul(fill, o.quantity), FeeOf(o)))
           /\ IF HasPosition(s) THEN PositionOf(s).quantity = left
              ELSE RLe(left, R(1, 10000))

\* The scenario of C6: the 1.0 unit bought at 100.05 is sold at mark 110.
SellScenario ==
    /\ SellWithinHolding
    /\ cfg = ScenarioConfig
    /\ last.pre.balance = R(989984995, 100000)
    /\ last.arg.quantity = RInt(1)
    /\ PrePosition(last.arg.symbol).quantity = RInt(1)
    /\ PrePosition(last.arg.symbol).entryPrice = R(10005, 100)
    /\ last.pre.marketPrices[last.arg.symbol] = RInt(110)

\* C6 as stated: the scenario gives NetPnL 9.785055 and balance 10009.685.
C6_MarketSellFill_AsStated ==
    /\ MarketSellFill
    /\ SellScenario
         => /\ tradeHistory[Len(tradeHistory)].netPnL = R(9785055, 1000000)
            /\ balance = R(10009685, 1000)

\* C6 as amended: the scenario gives NetPnL 9.785055 and balance 10009.685005
\* (9899.84995 + 109.945 - 0.109945).
C6_MarketSellFill ==
    /\ MarketSellFill
    /\ SellScenario
         => /\ tradeHistory[Len(tradeHistory)].netPnL = R(9785055, 1000000)
            /\ balance = R(2001937001, 200000)
            /\ ~HasPosition(last.arg.symbol)

\* the scenario's sell has been filled
C6_Witness ==
    /\ SellScenario
    /\ last.order.status = OrderStatusFilled
    /\ Len(tradeHistory) = 1

----------------------------------------------------------------------------
\* C7: a market buy is rejected for insufficient balance exactly when fill
\* price * quantity + fee is greater than the balance, and every filled order
\* has filled quantity equal to its requested quantity.
C7_InsufficientBalanceExactly ==
    /\ PlacedMarket(OrderSideBuy)
         => /\ (last.err = "insufficient balance") <=> RLt(last.pre.balance, CostOf(last.arg))
            /\ (last.err = "") <=> RLe(CostOf(last.arg), last.pre.balance)
    /\ (Placed /\ last.order.status = OrderStatusFilled)
         => last.order.filledQty = last.arg.quantity

\* a buy whose cost is exactly the balance has been filled, in full
C7_Witness ==
    /\ PlacedMarket(OrderSideBuy)
    /\ CostOf(last.arg) = last.pre.balance
    /\ last.order.status = OrderStatusFilled
    /\ balance = R0

----------------------------------------------------------------------------
\* C8: PlaceOrder with quantity <= 0 or an empty symbol, market or limit,
\* sets the order's status to rejected, returns an error and does not add
\* the order to the open orders.
C8_InvalidOrderRejected ==
    (Placed /\ (RLe(last.arg.quantity, R0) \/ last.arg.symbol = ""))
        => /\ last.order.status = OrderStatusRejected
           /\ last.err # ""
           /\ openOrders = last.pre.openOrders
           /\ \A i \in 1..Len(openOrders) : openOrders[i].id # last.order.id

\* a limit order with an empty symbol has been rejected while a limit order
\* is open
C8_Witness ==
    /\ Placed
    /\ last.arg.type = OrderTypeLimit
    /\ last.arg.symbol = ""
    /\ last.order.status = OrderStatusRejected
    /\ openOrders # <<>>

----------------------------------------------------------------------------
\* C9: a filled buy of q1 at p1 that opens a position, followed (with no
\* other fill of the symbol between) by a filled buy of q2 at p2, leaves
\* exactly one position for the symbol, with quantity q1 + q2 and entry price
\* (p1*q1 + p2*q2) / (q1 + q2).
C9_PositionAveraging ==
    LET s == last.arg.symbol
        first == last.preLife[s]
        p2 == last.order.filledPrice
        q2 == last.order.filledQty
    IN  (/\ PlacedMarket(OrderSideBuy)
         /\ last.order.status = OrderStatusFilled
         /\ first.st = "opened")
        => /\ HasPosition(s)
           /\ Cardinality({i \in 1..Len(accPositions) : heap[accPositions[i]].symbol = s}) = 1
           /\ PositionOf(s).quantity = RAdd(first.qty, q2)
           /\ PositionOf(s).entryPrice =
                RDiv(RAdd(RMul(first.price, first.qty), RMul(p2, q2)), RAdd(first.qty, q2))

\* the second buy has a different price and a different quantity
C9_Witness ==
    /\ PlacedMarket(OrderSideBuy)
    /\ last.order.status = OrderStatusFilled
    /\ last.preLife[last.arg.symbol].st = "opened"
    /\ last.preLife[last.arg.symbol].price # last.order.filledPrice
    /\ last.preLife[last.arg.symbol].qty # last.order.filledQty

----------------------------------------------------------------------------
\* C10: after a filled sell that leaves 0.0001 or less of a position, and
\* until a buy of the symbol, the symbol has no position: GetPosition returns
\* nil for it and GetAccount's positions list does not hold it.
C10_EpsilonClosure ==
    \A s \in Symbols :
        life[s].st = "closed"
        => /\ ~HasPosition(s)
           /\ \A i \in 1..Len(accPositions) : heap[accPositions[i]].symbol # s
           /\ last.op = "GetAccount"
                => \A i \in 1..Len(snap.positions) : heap[snap.positions[i]].symbol # s
           /\ (last.op = "GetPosition" /\ last.arg = s) => held = NoObj

\* GetAccount after a sell that left exactly 0.0001
C10_Witness ==
    /\ last.op = "GetAccount"
    /\ \E s \in Symbols : life[s].st = "closed" /\ life[s].left = R(1, 10000)

----------------------------------------------------------------------------
----------------------------------------------------------------------------
\* C11: UpdateMarketPrice leaves the balance, the trade history, the open
\* orders and every position's quantity and entry price unchanged, and the
\* balance changes only in a call that fills a market order.
C11_UpdateMarketPriceKeepsBalance ==
    /\ last.op = "UpdateMarketPrice"
         => /\ balance = last.pre.balance
            /\ tradeHistory = last.pre.tradeHistory
            /\ openOrders = last.pre.openOrders
            /\ positions = last.pre.positions
            /\ accPositions = last.pre.accPositions
            /\ \A s \in Symbols :
                  HasPosition(s)
                  => /\ PositionOf(s).quantity = PrePosition(s).quantity
                     /\ PositionOf(s).entryPrice = PrePosition(s).entryPrice
    /\ (last.op # "NewPaperBroker" /\ balance # last.pre.balance)
         => /\ Placed
            /\ last.arg.type = OrderTypeMarket
            /\ last.order.status = OrderStatusFilled

\* a price update that changed the unrealized PnL of a held position
C11_Witness ==
    /\ last.op = "UpdateMarketPrice"
    /\ HasPosition(last.arg[1])
    /\ PositionOf(last.arg[1]).unrealizedPnL # R0
    /\ PositionOf(last.arg[1]).unrealizedPnL # PrePosition(last.arg[1]).unrealizedPnL

----------------------------------------------------------------------------
\* The latest call filled a sell of a symbol that had a position.
SoldFromPosition ==
    /\ Placed
    /\ last.order.status = OrderStatusFilled
    /\ last.order.side = OrderSideSell
    /\ HadPosition(last.arg.symbol)

\* C12: across every call the trade history before it is a prefix of the
\* trade history after it, and a filled sell of a symbol that has a position
\* appends exactly one trade (of that sell), every other call none.
C12_TradeHistoryAppendOnly ==
    last.op # "NewPaperBroker"
    => LET n == Len(last.pre.tradeHistory) IN
       /\ Len(tradeHistory) = n + (IF SoldFromPosition THEN 1 ELSE 0)
       /\ SubSeq(tradeHistory, 1, n) = last.pre.tradeHistory
       /\ SoldFromPosition
            => /\ tradeHistory[n + 1].symbol = last.arg.symbol
               /\ tradeHistory[n + 1].quantity = last.order.filledQty
               /\ tradeHistory[n + 1].exitPrice = last.order.filledPrice
               /\ tradeHistory[n + 1].entryPrice = PrePosition(last.arg.symbol).entryPrice

\* a second sell has appended a trade that differs from the first one
C12_Witness ==
    /\ SoldFromPosition
    /\ Len(tradeHistory) = 2
    /\ tradeHistory[1] # tradeHistory[2]

----------------------------------------------------------------------------
\* C13: CancelOrder of an identifier in the open orders removes that order
\* from the list and sets its status to cancelled; CancelOrder of any other
\* identifier returns the order-not-found error and leaves balance,
\* positions, trade history and open orders unchanged.
C13_CancelOrder ==
    last.op = "CancelOrder"
    => LET Others(o) == o.id # last.arg IN
       IF \E i \in 1..Len(last.pre.openOrders) : last.pre.openOrders[i].id = last.arg
       THEN /\ last.err = ""
            /\ openOrders = SelectSeq(last.pre.openOrders, Others)
            /\ Len(openOrders) = Len(last.pre.openOrders) - 1
            /\ last.order.id = last.arg
            /\ last.order.status = OrderStatusCancelled
            /\ balance = last.pre.balance
            /\ tradeHistory = last.pre.tradeHistory
       ELSE /\ last.err = "order not found"
            /\ View(Ledger) = View(last.pre)

\* the identifier of an order placed earlier was not found while another
\* order is open
C13_Witness ==
    /\ last.op = "CancelOrder"
    /\ last.err = "order not found"
    /\ last.arg < nextId
    /\ openOrders # <<>>

----------------------------------------------------------------------------
\* C14: a valid limit order is appended to the open orders with status
\* pending without changing balance, positions or trade history; every open
\* order is a pending limit order, and no call but CancelOrder takes an
\* order off the list.
C14_LimitOrderStaysPending ==
    /\ \A i \in 1..Len(openOrders) :
          /\ openOrders[i].status = OrderStatusPending
          /\ openOrders[i].type = OrderTypeLimit
          /\ openOrders[i].filledQty = R0
    /\ (/\ Placed
        /\ last.arg.type = OrderTypeLimit
        /\ RLt(R0, last.arg.quantity)
        /\ last.arg.symbol # "")
         => /\ last.err = ""
            /\ last.order.status = OrderStatusPending
            /\ openOrders = Append(last.pre.openOrders, last.order)
            /\ [View(Ledger) EXCEPT !.openOrders = <<>>]
                 = [View(last.pre) EXCEPT !.openOrders = <<>>]
    /\ last.op \notin {"NewPaperBroker", "CancelOrder"}
         => /\ Len(openOrders) >= Len(last.pre.openOrders)
            /\ SubSeq(openOrders, 1, Len(last.pre.openOrders)) = last.pre.openOrders

\* a limit buy is still open after a market order of its symbol was filled
\* and the mark price was then set to its limit price
C14_Witness ==
    /\ last.op = "UpdateMarketPrice"
    /\ openOrders # <<>>
    /\ last.arg[1] = openOrders[1].symbol
    /\ last.arg[2] = openOrders[1].price
    /\ HasPosition(openOrders[1].symbol)

----------------------------------------------------------------------------
\* The latest candle's signal was a sell of a symbol that had no position.
SellSignalWithoutPosition ==
    /\ last.op = "executeSignal"
    /\ last.arg.action = SignalActionSell
    /\ last.pre.positions[last.arg.symbol] = NoObj

\* C15: a sell signal for a symbol that has no position makes the engine
\* place no order, and the ledger's balance, positions, trade history and
\* open orders are after the signal's handling what they were before it.
C15_SellWithoutPositionIgnored ==
    SellSignalWithoutPosition
    => /\ last.order = NoOrder
       /\ last.err = ""
       /\ View(Ledger) = View(last.pre)

\* such a sell signal has been handled on a later candle of a run, after a
\* buy was rejected
C15_Witness ==
    /\ SellSignalWithoutPosition
    /\ processed > 1
    /\ failed # {}

----------------------------------------------------------------------------
\* C16: Run returns nothing but nil or the context's error, the context's
\* error only when the context was cancelled, and nil only when every candle
\* has been processed: after a candle whose signal or checkpoint failed the
\* loop goes on with the next candle.
C16_ErrorsDoNotEndRun ==
    /\ runErr \in {"running", "nil", "context canceled"}
    /\ runErr = "context canceled" => ctxDone
    /\ runErr = "nil" => processed = nCandles
    /\ idx = processed
    /\ pcE \in {"check", "candle"} => runErr = "running"

\* Run has returned nil after a rejected order and a failed SaveState
C16_Witness ==
    /\ runErr = "nil"
    /\ {"order", "save"} \subseteq failed
    /\ processed = MaxCandles

----------------------------------------------------------------------------
\* C17: Run has called SaveState after a candle exactly when that candle is
\* a 10th processed candle or the final candle.
C17_SaveEveryTenthAndFinal ==
    lastCandle # NoCandle
    => (lastCandle.saved # "none"
          <=> \/ (lastCandle.i + 1) % CheckpointInterval = 0
              \/ lastCandle.i + 1 = nCandles)

----------------------------------------------------------------------------
\* C18: when the check before a candle finds the context cancelled, Run
\* processes neither that candle nor a later one: it returns the context's
\* error, with the ledger and the state file as the candles processed
\* before left them.
C18_CancelStopsBeforeNextCandle ==
    [][(pcE = "check" /\ idx < nCandles /\ ctxDone)
         => /\ runErr' = "context canceled"
            /\ pcE' = "exit"
            /\ processed' = processed
            /\ UNCHANGED <<balance, positions, accPositions, openOrders, tradeHistory,
                           marketPrices, heap, nextId, file, finalSave>>]_vars

\* a run cancelled after it had bought a position, with candles left
C18_Witness ==
    /\ runErr = "context canceled"
    /\ pcE = "exit"
    /\ accPositions # <<>>
    /\ processed < nCandles

----------------------------------------------------------------------------
\* C19: OnTrade has been called once for every trade in the trade history.
C19_OnTradeOncePerTrade == onTradeCalls = Len(tradeHistory)

----------------------------------------------------------------------------
\* C20: after LoadState has succeeded on a new ledger, the ledger's balance,
\* positions and trade history are those of the saved state.
C20_LoadRestoresSavedState ==
    (last.op = "LoadState" /\ last.err = "")
    => /\ balance = file.account.balance
       /\ Deref(heap, accPositions) = file.account.positions
       /\ tradeHistory = file.account.tradeHistory

----------------------------------------------------------------------------
\* C21: when the program exits after the shutdown signal has cancelled Run,
\* SaveState has been called on the ledger as the run left it.
C21_ShutdownSavesState ==
    (pcE = "exit" /\ runErr = "context canceled") => finalSave # "none"

----------------------------------------------------------------------------
\* The latest candle's signal had an action the engine does not know: the
\* one error a Strategy can cause, OnCandle returning no error.
UnknownSignal ==
    /\ last.op = "executeSignal"
    /\ last.arg.action \notin {SignalActionBuy, SignalActionSell, SignalActionHold}

----------------------------------------------------------------------------
\* An order's outcome without its generated identifier.
Outcome(order, err) == [order |-> [order EXCEPT !.id = 0], err |-> err]

----------------------------------------------------------------------------
\* The gain of the open positions of the given symbols at their current
\* prices, on the quantities held.
RECURSIVE MarkToMarket(_)
MarkToMarket(S) ==
    IF S = {} THEN R0
    ELSE LET s == CHOOSE x \in S : TRUE
             pos == heap[positions[s]]
         IN  RAdd(IF pos.currentPrice = R0 THEN R0
                  ELSE RMul(RSub(pos.currentPrice, pos.entryPrice), pos.quantity),
                  MarkToMarket(S \ {s}))

\* What C24 compares of an Account: balance, equity, each position's symbol,
\* quantity and entry price, and the trade history.
AccountValues(L, account) ==
    [balance |-> account.balance,
     equity |-> account.equity,
     positions |-> [i \in 1..Len(account.positions) |->
                      [symbol |-> L.heap[account.positions[i]].symbol,
                       quantity |-> L.heap[account.positions[i]].quantity,
                       entryPrice |-> L.heap[account.positions[i]].entryPrice]],
     tradeHistory |-> account.tradeHistory]

\* C24: any two GetAccount calls made on the same ledger, with no
\* PlaceOrder, CancelOrder or UpdateMarketPrice between them, return equal
\* balance, positions, trade history and equity.
C24_RepeatedGetAccountEqual ==
    \A o1, o2 \in RangeOrders(Ledger) :
        AccountValues(Ledger, GetAccountResult(Ledger, o1))
          = AccountValues(Ledger, GetAccountResult(Ledger, o2))

----------------------------------------------------------------------------
\* The minutes of the six supported timeframes, as documented
DocumentedMinutes ==
    [t \in {"1m", "5m", "15m", "1h", "4h", "1d"} |->
        CASE t = "1m" -> 1 [] t = "5m" -> 5 [] t = "15m" -> 15
          [] t = "1h" -> 60 [] t = "4h" -> 240 [] t = "1d" -> 1440]

\* C25: IsValid returns true exactly for 1m, 5m, 15m, 1h, 4h and 1d;
\* ToMinutes returns 1, 5, 15, 60, 240 and 1440 for them and 0 for any other
\* value; ToDuration returns that many minutes (of 60,000,000,000 ns each).
C25_Timeframe ==
    /\ tfResult.IsValid # <<>>
         => tfResult.IsValid[1] = (tf \in DOMAIN DocumentedMinutes)
    /\ tfResult.ToMinutes # <<>>
         => tfResult.ToMinutes[1] =
              IF tf \in DOMAIN DocumentedMinutes THEN DocumentedMinutes[tf] ELSE 0
    /\ tfResult.ToDuration # <<>>
         => LET m == IF tf \in DOMAIN DocumentedMinutes THEN DocumentedMinutes[tf] ELSE 0
            IN  /\ tfResult.ToDuration[1].sec = 60 * m
                /\ tfResult.ToDuration[1].nsec = 0

C25_Witness ==
    /\ tf = "1d"
    /\ tfResult = [ToMinutes |-> <<1440>>, ToDuration |-> <<Duration(86400, 0)>>,
                   IsValid |-> <<TRUE>>]

----------------------------------------------------------------------------
\* C26: the trade a market sell appends has a quantity no larger than the
\* quantity the position held just before the sell, and the balance is
\* credited for no more than the held quantity at the fill price.
C26_SellWithinPosition ==
    SoldFromPosition
    => /\ RLe(tradeHistory[Len(tradeHistory)].quantity,
              PrePosition(last.arg.symbol).quantity)
       /\ RLe(RSub(balance, last.pre.balance),
              RMul(last.order.filledPrice, PrePosition(last.arg.symbol).quantity))

----------------------------------------------------------------------------
\* C27: an order PlaceOrder returns with status filled and a nil error has
\* changed the balance and, when it is a sell, has appended one trade; so a
\* market sell of a symbol with no open position is not reported as filled.
C27_FilledMeansExecuted ==
    (Placed /\ last.err = "" /\ last.order.status = OrderStatusFilled)
    => /\ balance # last.pre.balance
       /\ last.order.side = OrderSideSell
            => Len(tradeHistory) = Len(last.pre.tradeHistory) + 1

----------------------------------------------------------------------------
\* C30: when PlaceOrder returns, the order's status is rejected if and only
\* if an error was returned, filled for a market order returned without
\* error, and pending only for a limit order returned without error that is
\* in the open-orders list.
C30_StatusMatchesOutcome ==
    Placed
    => /\ (last.order.status = OrderStatusRejected) <=> (last.err # "")
       /\ (last.err = "" /\ last.order.type = OrderTypeMarket)
            => last.order.status = OrderStatusFilled
       /\ last.order.status = OrderStatusPending
            => /\ last.err = ""
               /\ last.order.type = OrderTypeLimit
               /\ \E i \in 1..Len(openOrders) : openOrders[i] = last.order

----------------------------------------------------------------------------
\* C28: every open position has a quantity greater than 0, and no open
\* position has a quantity of 1e-4 or less.
C28_NoDustPosition ==
    \A s \in Symbols :
        HasPosition(s)
        => /\ RLt(R0, heap[positions[s]].quantity)
           /\ ~RLe(heap[positions[s]].quantity, Epsilon)

----------------------------------------------------------------------------
\* C29: each open position's unrealized PnL equals (current price - entry
\* price) * quantity, also right after an averaging buy and a partial sell,
\* so that the equity of GetAccount is the balance plus that gain summed
\* over the open positions.  (A position whose current price is 0 is left
\* out: its unrealized PnL is 0 by calculatePositionPnL.)
C29_UnrealizedPnLCurrent ==
    /\ \A s \in Symbols :
          (HasPosition(s) /\ heap[positions[s]].currentPrice # R0)
          => heap[positions[s]].unrealizedPnL
               = RMul(RSub(heap[positions[s]].currentPrice,
                           heap[positions[s]].entryPrice),
                      heap[positions[s]].quantity)
    /\ \A order \in RangeOrders(Ledger) :
          GetAccountResult(Ledger, order).equity.sum
            = RAdd(balance, MarkToMarket({s \in Symbols : HasPosition(s)}))

----------------------------------------------------------------------------
\* C31: an order for which PlaceOrder returns an error has its filled price,
\* filled quantity, fee and slippage at their zero values.
C31_FillFieldsOnlyWhenFilled ==
    (Placed /\ last.err # "")
    => /\ last.order.filledPrice = R0
       /\ last.order.filledQty = R0
       /\ last.order.fee = R0
       /\ last.order.slippage = R0

----------------------------------------------------------------------------
\* The fill price of the order the latest call filled, were it computed from
\* the given price.
FilledFrom(price) ==
    IF last.order.side = OrderSideBuy
    THEN RAdd(price, RMul(price, RDiv(cfg.slippageBps, RInt(10000))))
    ELSE RSub(price, RMul(price, RDiv(cfg.slippageBps, RInt(10000))))

\* C32: a filled market order for a symbol UpdateMarketPrice has recorded a
\* price for is filled from the recorded price, one for a symbol without
\* from the order's own price, and none is filled at a price of zero.
C32_FillPriceSource ==
    (Placed /\ last.order.type = OrderTypeMarket
            /\ last.order.status = OrderStatusFilled)
    => LET symbol == last.arg.symbol IN
       /\ symbol \in last.preRecorded
            => last.order.filledPrice = FilledFrom(last.pre.marketPrices[symbol])
       /\ symbol \notin last.preRecorded
            => last.order.filledPrice = FilledFrom(last.arg.price)
       /\ last.order.filledPrice # R0

----------------------------------------------------------------------------
\* The latest call was UpdateMarketPrice for a symbol with an open position.
MarkedPosition ==
    /\ last.op = "UpdateMarketPrice"
    /\ HasPosition(last.arg[1])

\* The unrealized PnL of the symbol's position, zero without a position.
UnrealizedOf(symbol) ==
    IF HasPosition(symbol) THEN PositionOf(symbol).unrealizedPnL ELSE R0

\* The equity of the next GetAccount is the balance plus the unrealized PnL
\* of the open positions; the scenario of the specification gives unrealized
\* PnL 9.95 and equity 9909.79995.
EquityAfterMark ==
    /\ \A order \in RangeOrders(Ledger) :
          GetAccountResult(Ledger, order).equity.sum
            = RAdd(RAdd(balance, UnrealizedOf("BTC/USD")), UnrealizedOf("ETH/USD"))
    /\ (/\ cfg = ScenarioConfig
        /\ balance = R(989984995, 100000)
        /\ last.arg[2] = RInt(110)
        /\ PositionOf(last.arg[1]).entryPrice = R(10005, 100)
        /\ PositionOf(last.arg[1]).quantity = RInt(1)
        /\ \A s \in Symbols : s # last.arg[1] => ~HasPosition(s))
       => /\ PositionOf(last.arg[1]).unrealizedPnL = R(995, 100)
          /\ \A order \in RangeOrders(Ledger) :
                GetAccountResult(Ledger, order).equity.sum = R(990979995, 100000)

\* C33 as stated: after UpdateMarketPrice(symbol, price) a position open for
\* the symbol has current price = price and unrealized PnL = (price - entry
\* price) * quantity, and the equity of the next GetAccount is the balance
\* plus the unrealized PnL of all open positions.
C33_MarkToMarket_AsStated ==
    MarkedPosition
    => LET pos == PositionOf(last.arg[1]) IN
       /\ pos.currentPrice = last.arg[2]
       /\ pos.unrealizedPnL = RMul(RSub(last.arg[2], pos.entryPrice), pos.quantity)
       /\ EquityAfterMark

\* C33 as amended: the same for a price other than zero; after
\* UpdateMarketPrice(symbol, 0) the position's unrealized PnL is 0.
C33_MarkToMarket ==
    MarkedPosition
    => LET pos == PositionOf(last.arg[1]) IN
       /\ pos.currentPrice = last.arg[2]
       /\ pos.unrealizedPnL =
            IF last.arg[2] = R0 THEN R0
            ELSE RMul(RSub(last.arg[2], pos.entryPrice), pos.quantity)
       /\ EquityAfterMark

\* the scenario's position has been marked at 110
C33_Witness ==
    /\ MarkedPosition
    /\ cfg = ScenarioConfig
    /\ balance = R(989984995, 100000)
    /\ last.arg[2] = RInt(110)
    /\ PositionOf(last.arg[1]).entryPrice = R(10005, 100)
    /\ PositionOf(last.arg[1]).unrealizedPnL = R(995, 100)

----------------------------------------------------------------------------
\* C34: Run calls SaveState for a candle exactly when the candle's index is
\* a checkpoint index, whatever came of the candle's order: a candle at a
\* checkpoint index whose order failed is checkpointed as well.
C34_CheckpointIgnoresOutcome ==
    lastCandle # NoCandle
    => ((lastCandle.saved # "none") <=> SaveDue(lastCandle.i))

----------------------------------------------------------------------------
\* The gain, at the given price, of the position the ledger before the
\* latest order held in the engine's symbol.
GainAt(price) ==
    IF HadPosition(EngineSymbol)
    THEN RMul(RSub(price, PrePosition(EngineSymbol).entryPrice),
              PrePosition(EngineSymbol).quantity)
    ELSE R0

\* C35: the candles are processed in sequence order, and for each candle
\* the price is updated to the candle's close first, the account is taken
\* next (it shows the positions valued at that close, and the balance from
\* before the candle's order), and the order is submitted last (it is filled
\* from that close).
C35_CandleStepsInOrder ==
    lastCandle # NoCandle
    => /\ lastCandle.i = processed - 1
       /\ idx = processed
       /\ last.pre.marketPrices[EngineSymbol] = lastCandle.close
       /\ snap.balance = last.pre.balance
       /\ snap.equity.sum = RAdd(last.pre.balance, GainAt(lastCandle.close))
       /\ snap.tradeHistory = last.pre.tradeHistory
       /\ (last.order # NoOrder /\ last.order.status = OrderStatusFilled)
            => last.order.filledPrice = FilledFrom(lastCandle.close)

\* a later candle whose close moved the value of a held position and whose
\* order was filled
C35_Witness ==
    /\ lastCandle # NoCandle
    /\ lastCandle.i >= 1
    /\ HadPosition(EngineSymbol)
    /\ snap.equity.sum # snap.balance
    /\ PrePosition(EngineSymbol).entryPrice # R(lastCandle.close[1] * 101, 100)
    /\ last.order # NoOrder
    /\ last.order.status = OrderStatusFilled
    /\ balance # snap.balance

----------------------------------------------------------------------------
\* C36: for each processed candle the engine submits at most one order: for
\* a buy signal exactly one market buy of the requested quantity, whatever
\* the balance; for a hold signal none; and never more orders than candles
\* processed or signals other than hold given, an order the ledger refused
\* not being submitted again.
C36_OneOrderPerCandle ==
    lastCandle # NoCandle
    => /\ last.arg.action = SignalActionBuy
            => /\ last.order # NoOrder
               /\ last.order.side = OrderSideBuy
               /\ last.order.type = OrderTypeMarket
               /\ last.order.symbol = last.arg.symbol
               /\ last.order.quantity = last.arg.quantity
       /\ last.arg.action = SignalActionHold => last.order = NoOrder
       /\ last.order # NoOrder => last.order.id = nextId - 1
       /\ nextId - 1 <= processed
       /\ nextId - 1 <= steps

\* a hold candle after a candle whose buy the ledger refused
C36_Witness ==
    /\ lastCandle # NoCandle
    /\ "order" \in failed
    /\ last.arg.action = SignalActionHold
    /\ last.order = NoOrder
    /\ nextId = 2

----------------------------------------------------------------------------
\* The configuration and the prices are within the ranges of C37.
WithinRanges ==
    /\ RLe(R0, cfg.initialBalance)
    /\ RLe(R0, cfg.takerFee) /\ RLe(cfg.takerFee, RInt(1))
    /\ RLe(R0, cfg.slippageBps) /\ RLe(cfg.slippageBps, RInt(10000))
    /\ \A s \in Symbols : RLe(R0, marketPrices[s])
    /\ \A i \in 1..Len(openOrders) : RLe(R0, openOrders[i].price)

\* C37: with initial balance >= 0, taker fee in [0, 1], slippage between 0
\* and 10000 bps and all prices >= 0, the balance is >= 0 in every state, and
\* no call of PlaceOrder, CancelOrder or UpdateMarketPrice leaves it below 0.
C37_BalanceNeverNegative ==
    WithinRanges => RLe(R0, balance)

\* with the whole fill price taken as slippage and the whole value as fee, a
\* position has been sold for nothing after a buy that took most of the
\* balance
C37_Witness ==
    /\ cfg.takerFee = RInt(1)
    /\ cfg.slippageBps = RInt(10000)
    /\ SoldFromPosition
    /\ last.order.filledPrice = R0
    /\ balance = last.pre.balance
    /\ RLt(balance, cfg.initialBalance)

----------------------------------------------------------------------------
\* C38: a broadcast never waits for a subscriber whose buffer is full (the
\* range can always visit a client left to visit); such a subscriber is
\* taken from the client set and its channel closed, while every other
\* client the broadcast began with gets the event; no channel is closed
\* twice and nothing is sent on a closed channel, in any interleaving of
\* register, unregister and broadcast.
C38_BroadcastNeverBlocks ==
    /\ hub.panics = {}
    /\ \A c \in HubClients :
          /\ hub.closes[c] <= 1
          /\ c \in hub.clients => hub.closes[c] = 0
          /\ hub.outcome[c] = "dropped" => c \notin hub.clients /\ hub.closes[c] = 1
          /\ Len(hub.send[c]) <= SendCap
    /\ (hub.pc = "range" /\ hub.todo # {}) => ENABLED H_Visit
    /\ (hub.pc = "select" /\ hub.event # 0)
         => \A c \in hub.started :
               hub.got[c] = hub.event \/ hub.outcome[c] = "dropped"

\* a broadcast has dropped a client with a full buffer and delivered the
\* event to the other, and the dropped client's ReadPump has unregistered
C38_Witness ==
    /\ hub.pc = "select"
    /\ \E c, d \in HubClients :
          /\ hub.outcome[c] = "dropped"
          /\ hub.conn[c] = "left"
          /\ hub.closes[c] = 1
          /\ hub.got[d] = hub.event
          /\ hub.got[c] # hub.event
          /\ d \in hub.started /\ c \in hub.started

----------------------------------------------------------------------------
\* C39: at most one run loop is processing candles at a time; a loop goes
\* on to no candle once the Stop that followed its Start has returned, also
\* when Start has been called again; and no loop stops the bot a later
\* Start started.
C39_OneRunLoop ==
    /\ Cardinality({k \in Loops : bot.loops[k].pc = "candle"}) <= 1
    /\ \A k \in Loops :
          /\ ~bot.loops[k].missedStop
          /\ ~bot.loops[k].stoppedLater

----------------------------------------------------------------------------
\* C40: Start returns an error and changes nothing when the bot is running,
\* Stop returns an error and changes nothing when it is not, and Configure
\* returns an error and leaves symbol, timeframe, strategy and replay mode
\* as they were while the bot is running.
C40_RefusedCallsChangeNothing ==
    /\ (bot.last.op = "Start" /\ bot.last.pre.isRunning)
         => bot.last.err # "" /\ Fields(bot) = bot.last.pre
    /\ (bot.last.op = "Stop" /\ ~bot.last.pre.isRunning)
         => bot.last.err # "" /\ Fields(bot) = bot.last.pre
    /\ (bot.last.op = "Configure" /\ bot.last.pre.isRunning)
         => /\ bot.last.err # ""
            /\ bot.symbol = bot.last.pre.symbol
            /\ bot.timeframe = bot.last.pre.timeframe
            /\ bot.strategyName = bot.last.pre.strategyName
            /\ bot.replayMode = bot.last.pre.replayMode
            /\ Fields(bot) = bot.last.pre

\* Configure has been refused, with other values than the configured ones,
\* while the bot runs
C40_Witness ==
    /\ bot.last.op = "Configure"
    /\ bot.last.pre.isRunning
    /\ bot.last.err # ""
    /\ bot.last.arg # <<bot.symbol, bot.timeframe, bot.strategyName, bot.replayMode>>
    /\ bot.starts = 1
    /\ bot.calls >= 3

=============================================================================
